---- MODULE Spec2Model ----
(***************************************************************************)
(* Multi-domain analytics backend: the aggregation service                 *)
(* (app/services.py), its filter builder and the HTTP handlers of          *)
(* app/main.py, over a relational store of three record types.             *)
(*                                                                         *)
(* Values.  A nullable value (a column of a stored record, an Optional     *)
(* query parameter) is the empty tuple for NULL / None and a one-element   *)
(* tuple <<x>> otherwise.  Numbers returned by the service are exact       *)
(* rationals <<n, d>> in lowest terms with d > 0.  Datetimes are integers  *)
(* (later is larger).                                                      *)
(***************************************************************************)
EXTENDS Integers, Sequences, FiniteSets, TLC

\* db: the stored records; pc, req, resp: the request observed with its full
\* response (Spec).  sessions, worker: the open database sessions and the
\* requests the server handles concurrently (ServerSpec).
\* importer, summary: the import operations in progress and a metrics
\* summary whose three queries run one after the other (ImportSpec, RaceSpec,
\* SummarySpec).
VARIABLES db, pc, req, resp, sessions, worker, importer, summary

vars == <<db, pc, req, resp, sessions, worker, importer, summary>>

\* ------------------------------------------------------------------ bounds

\* The largest number of records a table of the store holds.
MaxRecords == 3

\* The largest number of filter parameters a request supplies.
MaxFilters == 2

\* The number of requests the server handles at the same time.
MaxRequests == 2

\* The largest number of database sessions open at the same time.
MaxSessions == 3

\* The largest number of rows of an imported file.
MaxRows == 2

\* The number of import operations that run at the same time.
MaxImports == 2

\* The largest number of records the store holds after an import or a seed.
MaxStored == 3

\* ------------------------------------------------------------------ values

None == <<>>

Some(x) == <<x>>

RECURSIVE GCD(_, _)
GCD(a, b) == IF b = 0 THEN a ELSE GCD(b, a % b)

Abs(x) == IF x < 0 THEN 0 - x ELSE x

\* The rational n/d (d > 0) in lowest terms.
Rat(n, d) ==
    LET g == GCD(Abs(n), d)
    IN  <<n \div g, d \div g>>

Zero == <<0, 1>>

RatAdd(a, b) == Rat(a[1] * b[2] + b[1] * a[2], a[2] * b[2])

RatMul(a, b) == Rat(a[1] * b[1], a[2] * b[2])

RECURSIVE SeqSum(_)
SeqSum(s) == IF s = <<>> THEN 0 ELSE Head(s) + SeqSum(Tail(s))

RECURSIVE SeqMin(_)
SeqMin(s) ==
    IF Len(s) = 1 THEN s[1]
    ELSE LET m == SeqMin(Tail(s)) IN IF s[1] < m THEN s[1] ELSE m

RECURSIVE SeqMax(_)
SeqMax(s) ==
    IF Len(s) = 1 THEN s[1]
    ELSE LET m == SeqMax(Tail(s)) IN IF s[1] > m THEN s[1] ELSE m

\* The subsequence of s whose elements satisfy Test, in s's order.
RECURSIVE SelectRows(_, _, _, _)
SelectRows(s, column, op, value) ==
    IF s = <<>> THEN <<>>
    ELSE LET r == Head(s)
             keep == /\ r[column] # None
                     /\ CASE op = "eq" -> r[column][1] = value
                          [] op = "ge" -> r[column][1] >= value
                          [] op = "le" -> r[column][1] <= value
         IN  (IF keep THEN <<r>> ELSE <<>>) \o SelectRows(Tail(s), column, op, value)

\* All orders (sequences without repetition) of the finite set S.
Orders(S) ==
    {s \in [1..Cardinality(S) -> S] : \A i, j \in DOMAIN s : i # j => s[i] # s[j]}

\* ------------------------------------------------------------------ schema

\* AnalyticsType: the supported analytics domains.
AnalyticsType == {"sales", "food_delivery", "saas"}

\* AggregationType: the supported aggregation kinds.
AggregationType == {"sum", "avg", "count", "min", "max"}

\* The columns of the three ORM models.
SalesTransaction ==
    {"id", "product_name", "category", "amount", "quantity", "region",
     "customer_id", "payment_method", "sale_date", "created_at"}

FoodOrder ==
    {"id", "order_id", "restaurant_name", "cuisine_type", "order_amount",
     "delivery_fee", "tip_amount", "total_amount", "customer_id", "city",
     "delivery_status", "order_date", "delivery_time_minutes", "created_at"}

Subscription ==
    {"id", "subscription_id", "customer_id", "plan_name", "plan_type", "amount",
     "status", "currency", "billing_cycle_start", "billing_cycle_end",
     "created_at", "cancelled_at", "mrr"}

\* The fields of FilterParams, all Optional with default None.
StringParams ==
    {"category", "region", "product_name", "payment_method",
     "restaurant_name", "cuisine_type", "city", "delivery_status",
     "plan_name", "plan_type", "status", "currency", "customer_id"}

DateParams == {"start_date", "end_date"}

FilterParams == StringParams \cup DateParams

\* FilterParams() with no argument: every field None.
NoFilters == [p \in FilterParams |-> None]

\* ANALYTICS_CONFIG: per domain the model, the date field, the aggregatable
\* and groupable fields (lists) and filter_fields, a dict in insertion order
\* from filter parameter to model field (here a sequence of pairs).
ANALYTICS_CONFIG ==
    [sales |->
        [model |-> SalesTransaction,
         date_field |-> "sale_date",
         aggregatable_fields |-> <<"amount", "quantity">>,
         groupable_fields |-> <<"category", "region", "product_name", "payment_method">>,
         filter_fields |-> << <<"category", "category">>, <<"region", "region">>,
                              <<"product_name", "product_name">>,
                              <<"payment_method", "payment_method">>,
                              <<"customer_id", "customer_id">> >>],
     food_delivery |->
        [model |-> FoodOrder,
         date_field |-> "order_date",
         aggregatable_fields |-> <<"order_amount", "delivery_fee", "tip_amount",
                                   "total_amount", "delivery_time_minutes">>,
         groupable_fields |-> <<"restaurant_name", "cuisine_type", "city", "delivery_status">>,
         filter_fields |-> << <<"restaurant_name", "restaurant_name">>,
                              <<"cuisine_type", "cuisine_type">>,
                              <<"city", "city">>,
                              <<"delivery_status", "delivery_status">>,
                              <<"customer_id", "customer_id">> >>],
     saas |->
        [model |-> Subscription,
         date_field |-> "billing_cycle_start",
         aggregatable_fields |-> <<"amount", "mrr">>,
         groupable_fields |-> <<"plan_name", "plan_type", "status", "currency">>,
         filter_fields |-> << <<"plan_name", "plan_name">>, <<"plan_type", "plan_type">>,
                              <<"status", "status">>, <<"currency", "currency">>,
                              <<"customer_id", "customer_id">> >>]]

Range(s) == {s[i] : i \in DOMAIN s}

\* Python truthiness of an Optional[str]: None and "" are falsy.
TruthyStr(v) == v # None /\ v[1] # ""

\* Python truthiness of an Optional[datetime]: only None is falsy.
TruthyDate(v) == v # None

\* ------------------------------------------------------------------ store

\* SQL SUM / AVG / MIN / MAX over a column of the rows: NULLs are skipped and
\* the result is NULL when no non-NULL value is left.
RECURSIVE NonNull(_, _)
NonNull(rows, column) ==
    IF rows = <<>> THEN <<>>
    ELSE (IF Head(rows)[column] = None THEN <<>> ELSE <<Head(rows)[column][1]>>)
         \o NonNull(Tail(rows), column)

SqlSum(rows, column) ==
    LET vs == NonNull(rows, column)
    IN  IF vs = <<>> THEN None ELSE Some(Rat(SeqSum(vs), 1))

SqlAvg(rows, column) ==
    LET vs == NonNull(rows, column)
    IN  IF vs = <<>> THEN None ELSE Some(Rat(SeqSum(vs), Len(vs)))

SqlMin(rows, column) ==
    LET vs == NonNull(rows, column)
    IN  IF vs = <<>> THEN None ELSE Some(Rat(SeqMin(vs), 1))

SqlMax(rows, column) ==
    LET vs == NonNull(rows, column)
    IN  IF vs = <<>> THEN None ELSE Some(Rat(SeqMax(vs), 1))

\* SQL COUNT(*): the number of rows.
SqlCount(rows) == Len(rows)

\* The rows whose group column holds key; NULL keys form one group.
RECURSIVE RowsOfGroup(_, _, _)
RowsOfGroup(rows, column, key) ==
    IF rows = <<>> THEN <<>>
    ELSE (IF Head(rows)[column] = key THEN <<Head(rows)>> ELSE <<>>)
         \o RowsOfGroup(Tail(rows), column, key)

\* GROUP BY column: one (key, rows) pair per key present in rows.  SQL leaves
\* the order of the groups to the store: order lists the column's keys in the
\* order the store returns them.
RECURSIVE GroupBy(_, _, _)
GroupBy(rows, column, order) ==
    IF order = <<>> THEN <<>>
    ELSE LET g == RowsOfGroup(rows, column, Head(order))
         IN  (IF g = <<>> THEN <<>> ELSE << <<Head(order), g>> >>)
             \o GroupBy(rows, column, Tail(order))

\* The orders in which the store may return the groups of a column.
StoreOrders(table, column) == Orders({table[i][column] : i \in DOMAIN table})

\* A table of a store that cannot be read: executing a statement on it raises
\* sqlalchemy's OperationalError, whose text names the statement and the cause.
Failure == << [error |-> "OperationalError"] >>

\* A store none of whose tables can be read.
FailedStore == [t \in AnalyticsType |-> Failure]

\* ------------------------------------------------------------------ service

Raise(type, message) == [raised |-> TRUE, type |-> type, message |-> message]

Return(value) == [raised |-> FALSE, value |-> value]

\* The exception raised when a statement is executed on a failing store.
StoreError == Raise("OperationalError", [text |-> Failure[1].error])

\* AnalyticsService.get_config
get_config(analytics_type) ==
    IF analytics_type \notin DOMAIN ANALYTICS_CONFIG
    THEN Raise("ValueError", [text |-> "Unsupported analytics type",
                              analytics_type |-> analytics_type])
    ELSE Return(ANALYTICS_CONFIG[analytics_type])

\* getattr(filters, filter_param, None)
FilterValue(filters, filter_param) ==
    IF filter_param \in DOMAIN filters THEN filters[filter_param] ELSE None

\* The loop over config["filter_fields"].items() of apply_filters.
RECURSIVE ApplyFieldFilters(_, _, _, _)
ApplyFieldFilters(query, model, filters, filter_fields) ==
    IF filter_fields = <<>> THEN query
    ELSE LET filter_param == Head(filter_fields)[1]
             model_field == Head(filter_fields)[2]
             filter_value == FilterValue(filters, filter_param)
             narrowed ==
                 IF TruthyStr(filter_value) /\ model_field \in model
                 THEN SelectRows(query, model_field, "eq", filter_value[1])
                 ELSE query
         IN  ApplyFieldFilters(narrowed, model, filters, Tail(filter_fields))

\* Mutant of apply_filters: a parameter the domain does not bind is compared
\* with a missing attribute, which no record matches.
apply_filters_UnboundMatchesNothing(query, model, filters, config) ==
    LET date_field == config.date_field
        q0 == IF \E p \in StringParams :
                    /\ TruthyStr(filters[p])
                    /\ \A b \in Range(config.filter_fields) : b[1] # p
              THEN <<>>
              ELSE query
        q1 == ApplyFieldFilters(q0, model, filters, config.filter_fields)
        q2 == IF TruthyDate(filters.start_date) /\ date_field \in model
              THEN SelectRows(q1, date_field, "ge", filters.start_date[1])
              ELSE q1
        q3 == IF TruthyDate(filters.end_date) /\ date_field \in model
              THEN SelectRows(q2, date_field, "le", filters.end_date[1])
              ELSE q2
    IN  q3

\* Mutant of apply_filters: the end date is an exclusive bound.
apply_filters_ExclusiveEnd(query, model, filters, config) ==
    LET date_field == config.date_field
        q1 == ApplyFieldFilters(query, model, filters, config.filter_fields)
        q2 == IF TruthyDate(filters.start_date) /\ date_field \in model
              THEN SelectRows(q1, date_field, "ge", filters.start_date[1])
              ELSE q1
        q3 == IF TruthyDate(filters.end_date) /\ date_field \in model
              THEN SelectRows(q2, date_field, "le", filters.end_date[1] - 1)
              ELSE q2
    IN  q3

\* AnalyticsService.apply_filters
apply_filters(query, model, filters, config) ==
    LET date_field == config.date_field
        q1 == ApplyFieldFilters(query, model, filters, config.filter_fields)
        q2 == IF TruthyDate(filters.start_date) /\ date_field \in model
              THEN SelectRows(q1, date_field, "ge", filters.start_date[1])
              ELSE q1
        q3 == IF TruthyDate(filters.end_date) /\ date_field \in model
              THEN SelectRows(q2, date_field, "le", filters.end_date[1])
              ELSE q2
    IN  q3

\* filters.model_dump(exclude_none=True) if filters else {}
FiltersApplied(filters) ==
    IF filters = None THEN <<>>
    ELSE LET f == filters[1]
         IN  [p \in {q \in DOMAIN f : f[q] # None} |-> f[p][1]]

\* str(row[0]) of a group key.
Str(key) == IF key = None THEN "None" ELSE key[1]

\* Mutant of FloatOrZero: "if x is not None" and a null for an empty result.
FloatOrZero_NullWhenEmpty(x) == IF x = None THEN None ELSE x[1]

\* float(x) if x else 0.0, for a numeric query result x.
FloatOrZero(x) == IF x = None \/ x[1][1] = 0 THEN Zero ELSE x[1]

\* The narrowed query of aggregate and get_chart_data.
Query(store, model_name, config, filters) ==
    IF store[model_name] = Failure THEN Failure
    ELSE IF filters # None
    THEN apply_filters(store[model_name], config.model, filters[1], config)
    ELSE store[model_name]

\* Mutant of GroupRows: the grouped sum branch computes func.avg.
GroupRows_SumAsAvg(aggregation_type, query, field, group_by, order) ==
    LET result == GroupBy(query, group_by, order)
    IN  [i \in 1..Len(result) |->
            [group |-> Str(result[i][1]),
             value |-> CASE aggregation_type = "sum" ->
                                FloatOrZero(SqlAvg(result[i][2], field))
                         [] aggregation_type = "avg" ->
                                FloatOrZero(SqlAvg(result[i][2], field))
                         [] aggregation_type = "count" ->
                                Rat(SqlCount(result[i][2]), 1)]]

\* Mutant of GroupRows: the grouped count is func.count(field_attr), which
\* skips the rows whose field is NULL.
GroupRows_CountField(aggregation_type, query, field, group_by, order) ==
    LET result == GroupBy(query, group_by, order)
    IN  [i \in 1..Len(result) |->
            [group |-> Str(result[i][1]),
             value |-> CASE aggregation_type = "sum" ->
                                FloatOrZero(SqlSum(result[i][2], field))
                         [] aggregation_type = "avg" ->
                                FloatOrZero(SqlAvg(result[i][2], field))
                         [] aggregation_type = "count" ->
                                Rat(Len(NonNull(result[i][2], field)), 1)]]

\* The grouped branch of aggregate for sum, avg and count: the rows of
\* query.with_entities(group_attr, func.<kind>(...)).group_by(group_attr).all()
\* turned into the "groups" list.
GroupRows(aggregation_type, query, field, group_by, order) ==
    LET result == GroupBy(query, group_by, order)
    IN  [i \in 1..Len(result) |->
            [group |-> Str(result[i][1]),
             value |-> CASE aggregation_type = "sum" ->
                                FloatOrZero(SqlSum(result[i][2], field))
                         [] aggregation_type = "avg" ->
                                FloatOrZero(SqlAvg(result[i][2], field))
                         [] aggregation_type = "count" ->
                                Rat(SqlCount(result[i][2]), 1)]]

\* The ungrouped branches of aggregate: the scalar "value".
ScalarValue(aggregation_type, query, field) ==
    CASE aggregation_type = "sum" -> FloatOrZero(SqlSum(query, field))
      [] aggregation_type = "avg" -> FloatOrZero(SqlAvg(query, field))
      [] aggregation_type = "count" -> Rat(SqlCount(query), 1)
      [] aggregation_type = "min" -> FloatOrZero(SqlMin(query, field))
      [] aggregation_type = "max" -> FloatOrZero(SqlMax(query, field))

\* One branch "if group_by: ... else: ..." of aggregate (sum, avg, count).
GroupedOrScalar(analytics_type, aggregation_type, field, filters, group_by, query, order) ==
    IF TruthyStr(group_by)
    THEN Return([analytics_type |-> analytics_type,
                 aggregation_type |-> aggregation_type,
                 field |-> field,
                 group_by |-> group_by[1],
                 groups |-> GroupRows(aggregation_type, query, field, group_by[1], order),
                 filters_applied |-> FiltersApplied(filters)])
    ELSE Return([analytics_type |-> analytics_type,
                 aggregation_type |-> aggregation_type,
                 field |-> field,
                 value |-> ScalarValue(aggregation_type, query, field),
                 filters_applied |-> FiltersApplied(filters)])

\* The min and max branches of aggregate: no "if group_by".
ScalarOnly(analytics_type, aggregation_type, field, filters, query) ==
    Return([analytics_type |-> analytics_type,
            aggregation_type |-> aggregation_type,
            field |-> field,
            value |-> ScalarValue(aggregation_type, query, field),
            filters_applied |-> FiltersApplied(filters)])

\* Mutant of FieldIsValid: any column of the model passes (getattr succeeds).
FieldIsValid_AnyColumn(field, config) == field \in config.model

\* "field not in valid_fields" negated: the field check of aggregate.
FieldIsValid(field, config) == field \in Range(config.aggregatable_fields)

\* Mutant of GroupIsValid: any column of the model passes (getattr succeeds).
GroupIsValid_AnyColumn(group_by, config) == group_by \in config.model

\* "group_by not in valid_group_fields" negated: the group_by check of aggregate.
GroupIsValid(group_by, config) == group_by \in Range(config.groupable_fields)

\* Mutant of Validate: the group_by is checked before the field.
Validate_GroupFirst(analytics_type, config, field, group_by) ==
    IF TruthyStr(group_by) /\ ~GroupIsValid(group_by[1], config)
    THEN Raise("ValueError", [text |-> "Invalid group_by field",
                              analytics_type |-> analytics_type,
                              valid |-> config.groupable_fields])
    ELSE IF ~FieldIsValid(field, config)
    THEN Raise("ValueError", [text |-> "Invalid field",
                              analytics_type |-> analytics_type,
                              valid |-> config.aggregatable_fields])
    ELSE Return(TRUE)

\* The validation of aggregate, in the order of the code: the field, then
\* the group_by if one is given.
Validate(analytics_type, config, field, group_by) ==
    IF ~FieldIsValid(field, config)
    THEN Raise("ValueError", [text |-> "Invalid field",
                              analytics_type |-> analytics_type,
                              valid |-> config.aggregatable_fields])
    ELSE IF TruthyStr(group_by) /\ ~GroupIsValid(group_by[1], config)
    THEN Raise("ValueError", [text |-> "Invalid group_by field",
                              analytics_type |-> analytics_type,
                              valid |-> config.groupable_fields])
    ELSE Return(TRUE)

\* The model attributes apply_filters looks up with getattr: the bound field
\* of every filter parameter given non-empty, and the date field when a date
\* bound is given.
FilterAttributes(filters, config) ==
    IF filters = None THEN {}
    ELSE {b[2] : b \in {c \in Range(config.filter_fields) :
                            TruthyStr(FilterValue(filters[1], c[1]))}}
         \cup (IF TruthyDate(filters[1].start_date) \/ TruthyDate(filters[1].end_date)
               THEN {config.date_field} ELSE {})

\* The model attributes a call of aggregate looks up, by the use made of
\* them: filtered (apply_filters), aggregated (getattr(model, field), after
\* the field check) and grouped (getattr(model, group_by) in the grouped
\* branches of sum, avg and count).
AttributesRead(analytics_type, aggregation_type, field, filters, group_by) ==
    LET config == ANALYTICS_CONFIG[analytics_type]
        filtered == FilterAttributes(filters, config)
    IN  IF ~FieldIsValid(field, config)
        THEN [filtered |-> filtered, aggregated |-> {}, grouped |-> {}]
        ELSE IF TruthyStr(group_by) /\ ~GroupIsValid(group_by[1], config)
        THEN [filtered |-> filtered, aggregated |-> {field}, grouped |-> {}]
        ELSE [filtered |-> filtered, aggregated |-> {field},
              grouped |-> IF TruthyStr(group_by)
                             /\ aggregation_type \in {"sum", "avg", "count"}
                          THEN {group_by[1]} ELSE {}]

\* The model attributes a call of get_chart_data looks up: both getattr
\* calls come after both checks.
ChartAttributesRead(analytics_type, field, filters, group_by) ==
    LET config == ANALYTICS_CONFIG[analytics_type]
        filtered == FilterAttributes(filters, config)
    IN  IF ~FieldIsValid(field, config) \/ ~GroupIsValid(group_by, config)
        THEN [filtered |-> filtered, aggregated |-> {}, grouped |-> {}]
        ELSE [filtered |-> filtered, aggregated |-> {field}, grouped |-> {group_by}]

\* Mutant of PerformAggregation: min and max honour group_by like the other kinds.
PerformAggregation_MinMaxGrouped(analytics_type, aggregation_type, field, filters, group_by, query, order) ==
    IF aggregation_type \in {"min", "max"} /\ TruthyStr(group_by)
    THEN LET result == GroupBy(query, group_by[1], order)
         IN  Return([analytics_type |-> analytics_type,
                     aggregation_type |-> aggregation_type,
                     field |-> field,
                     group_by |-> group_by[1],
                     groups |-> [i \in 1..Len(result) |->
                                   [group |-> Str(result[i][1]),
                                    value |-> IF aggregation_type = "min"
                                              THEN FloatOrZero(SqlMin(result[i][2], field))
                                              ELSE FloatOrZero(SqlMax(result[i][2], field))]],
                     filters_applied |-> FiltersApplied(filters)])
    ELSE IF aggregation_type \in {"min", "max"}
    THEN ScalarOnly(analytics_type, aggregation_type, field, filters, query)
    ELSE GroupedOrScalar(analytics_type, aggregation_type, field, filters,
                         group_by, query, order)

\* "Perform aggregation": the if / elif chain over aggregation_type.
PerformAggregation(analytics_type, aggregation_type, field, filters, group_by, query, order) ==
    CASE aggregation_type = "sum" ->
            GroupedOrScalar(analytics_type, aggregation_type, field, filters,
                            group_by, query, order)
      [] aggregation_type = "avg" ->
            GroupedOrScalar(analytics_type, aggregation_type, field, filters,
                            group_by, query, order)
      [] aggregation_type = "count" ->
            GroupedOrScalar(analytics_type, aggregation_type, field, filters,
                            group_by, query, order)
      [] aggregation_type = "min" ->
            ScalarOnly(analytics_type, aggregation_type, field, filters, query)
      [] aggregation_type = "max" ->
            ScalarOnly(analytics_type, aggregation_type, field, filters, query)

\* AnalyticsService.aggregate.  store is the content of the database the
\* session reads, order the order in which the store returns groups.
aggregate(store, analytics_type, aggregation_type, field, filters, group_by, order) ==
    LET cfg == get_config(analytics_type)
    IN
    IF cfg.raised THEN cfg
    ELSE
    LET config == cfg.value
        query == Query(store, analytics_type, config, filters)
        checked == Validate(analytics_type, config, field, group_by)
    IN
    IF checked.raised THEN checked
    ELSE IF query = Failure THEN StoreError
    ELSE PerformAggregation(analytics_type, aggregation_type, field, filters,
                            group_by, query, order)

\* Mutant of DataPoints: the chart query aggregates with func.avg.
DataPoints_Avg(query, field, group_by, order) ==
    LET result == GroupBy(query, group_by, order)
    IN  [i \in 1..Len(result) |->
            [label |-> Str(result[i][1]),
             value |-> FloatOrZero(SqlAvg(result[i][2], field)),
             metadata |-> <<>>]]

\* The grouped func.sum query of get_chart_data and its data_points.
DataPoints(query, field, group_by, order) ==
    LET result == GroupBy(query, group_by, order)
    IN  [i \in 1..Len(result) |->
            [label |-> Str(result[i][1]),
             value |-> FloatOrZero(SqlSum(result[i][2], field)),
             metadata |-> <<>>]]

\* AnalyticsService.get_chart_data
service_get_chart_data(store, analytics_type, chart_type, field, filters, group_by, order) ==
    LET cfg == get_config(analytics_type)
    IN
    IF cfg.raised THEN cfg
    ELSE
    LET config == cfg.value
        query == Query(store, analytics_type, config, filters)
        valid_fields == config.aggregatable_fields
        valid_group_fields == config.groupable_fields
    IN
    IF ~FieldIsValid(field, config)
    THEN Raise("ValueError", [text |-> "Invalid field",
                              analytics_type |-> analytics_type,
                              valid |-> valid_fields])
    ELSE IF ~GroupIsValid(group_by, config)
    THEN Raise("ValueError", [text |-> "Invalid group_by field",
                              analytics_type |-> analytics_type,
                              valid |-> valid_group_fields])
    ELSE IF query = Failure THEN StoreError
    ELSE
    LET data_points == DataPoints(query, field, group_by, order)
    IN  Return([analytics_type |-> analytics_type,
                chart_type |-> chart_type,
                data |-> data_points,
                metadata |-> [field |-> field,
                              group_by |-> group_by,
                              filters_applied |-> FiltersApplied(filters),
                              total_points |-> Len(data_points)]])

\* ------------------------------------------------------------------ HTTP

HTTPException(status_code, detail) == [status_code |-> status_code, detail |-> detail]

\* FastAPI's validation of the enum-typed query parameters (422).
RequestValidationError == [status_code |-> 422, detail |-> "validation error"]

\* has_filters = any([...]) over the handler's filter parameters.
HasFilters(filters) ==
    \/ \E p \in StringParams : TruthyStr(filters[p])
    \/ \E p \in DateParams : TruthyDate(filters[p])

\* "except ValueError ... 400 / except Exception ... 500" of the handlers.
\* The 500 detail is f"Internal server error: {str(e)}".
Except(result) ==
    IF result.type = "ValueError"
    THEN HTTPException(400, result.message)
    ELSE HTTPException(500, [text |-> "Internal server error", error |-> result.message])

\* Mutant of AggregationResponse: value defaults to 0.0 instead of None, so a
\* grouped result carries a value next to its groups.
AggregationResponse_ValueDefaultsToZero(result) ==
    [analytics_type |-> result.analytics_type,
     aggregation_type |-> result.aggregation_type,
     field |-> result.field,
     value |-> IF "value" \in DOMAIN result THEN Some(result.value) ELSE Some(Zero),
     group_by |-> IF "group_by" \in DOMAIN result THEN Some(result.group_by) ELSE None,
     groups |-> IF "groups" \in DOMAIN result THEN Some(result.groups) ELSE None,
     filters_applied |-> result.filters_applied]

\* AggregationResponse(**result): the absent keys take their default None.
AggregationResponse(result) ==
    [analytics_type |-> result.analytics_type,
     aggregation_type |-> result.aggregation_type,
     field |-> result.field,
     value |-> IF "value" \in DOMAIN result THEN Some(result.value) ELSE None,
     group_by |-> IF "group_by" \in DOMAIN result THEN Some(result.group_by) ELSE None,
     groups |-> IF "groups" \in DOMAIN result THEN Some(result.groups) ELSE None,
     filters_applied |-> result.filters_applied]

\* Mutant of get_aggregation: analytics_type is declared str, so any value
\* passes the validation of the query parameters and reaches the service.
get_aggregation_TypeUnchecked(store, analytics_type, aggregation_type, field, group_by, params, order) ==
    IF aggregation_type \notin AggregationType
    THEN RequestValidationError
    ELSE
    LET filters == [p \in FilterParams |-> params[p]]
        has_filters == HasFilters(filters)
        result == aggregate(store, analytics_type, aggregation_type, field,
                            IF has_filters THEN Some(filters) ELSE None,
                            group_by, order)
    IN  IF result.raised THEN Except(result)
        ELSE [status_code |-> 200, body |-> AggregationResponse(result.value)]

\* GET /api/v1/aggregate (get_aggregation).  params are the filter query
\* parameters, None where the request carries none.
get_aggregation(store, analytics_type, aggregation_type, field, group_by, params, order) ==
    IF analytics_type \notin AnalyticsType \/ aggregation_type \notin AggregationType
    THEN RequestValidationError
    ELSE
    LET filters == [p \in FilterParams |-> params[p]]
        has_filters == HasFilters(filters)
        result == aggregate(store, analytics_type, aggregation_type, field,
                            IF has_filters THEN Some(filters) ELSE None,
                            group_by, order)
    IN  IF result.raised THEN Except(result)
        ELSE [status_code |-> 200, body |-> AggregationResponse(result.value)]

\* Mutant of get_chart_data: group_by is declared Optional and the service
\* validates it only "if group_by", so getattr(model, group_by) fails for an
\* absent or empty group_by and the handler answers 500.
get_chart_data_OptionalGroup(store, analytics_type, chart_type, field, group_by, params, order) ==
    IF analytics_type \notin AnalyticsType
    THEN RequestValidationError
    ELSE IF ~TruthyStr(group_by)
    THEN HTTPException(500, [text |-> "Internal server error", error |-> "AttributeError"])
    ELSE
    LET filters == [p \in FilterParams |-> params[p]]
        has_filters == HasFilters(filters)
        result == service_get_chart_data(store, analytics_type, chart_type, field,
                                         IF has_filters THEN Some(filters) ELSE None,
                                         group_by[1], order)
    IN  IF result.raised THEN Except(result)
        ELSE [status_code |-> 200, body |-> result.value]

\* GET /api/v1/chart (get_chart_data of main.py).  group_by is required.
get_chart_data(store, analytics_type, chart_type, field, group_by, params, order) ==
    IF analytics_type \notin AnalyticsType \/ group_by = None
    THEN RequestValidationError
    ELSE
    LET filters == [p \in FilterParams |-> params[p]]
        has_filters == HasFilters(filters)
        result == service_get_chart_data(store, analytics_type, chart_type, field,
                                         IF has_filters THEN Some(filters) ELSE None,
                                         group_by[1], order)
    IN  IF result.raised THEN Except(result)
        ELSE [status_code |-> 200, body |-> result.value]

\* The query parameters get_metrics_summary accepts.
SummaryParams ==
    {"category", "region", "city", "cuisine_type", "plan_name", "status",
     "start_date", "end_date"}

\* "Determine primary field based on analytics type" of get_metrics_summary.
PrimaryField(analytics_type) ==
    IF analytics_type = "sales" THEN "amount"
    ELSE IF analytics_type = "food_delivery" THEN "total_amount"
    ELSE "mrr"

\* GET /api/v1/metrics/summary (get_metrics_summary).
get_metrics_summary(store, analytics_type, params) ==
    IF analytics_type \notin AnalyticsType
    THEN RequestValidationError
    ELSE
    LET filters == [p \in FilterParams |-> IF p \in SummaryParams THEN params[p] ELSE None]
        has_filters ==
            \/ \E p \in SummaryParams \cap StringParams : TruthyStr(filters[p])
            \/ \E p \in SummaryParams \cap DateParams : TruthyDate(filters[p])
        primary_field == PrimaryField(analytics_type)
        arg == IF has_filters THEN Some(filters) ELSE None
        total == aggregate(store, analytics_type, "sum", primary_field, arg, None, <<>>)
        average == aggregate(store, analytics_type, "avg", primary_field, arg, None, <<>>)
        count == aggregate(store, analytics_type, "count", primary_field, arg, None, <<>>)
    IN  IF total.raised THEN HTTPException(500, [text |-> "Internal server error",
                                                 error |-> total.message])
        ELSE IF average.raised THEN HTTPException(500, [text |-> "Internal server error",
                                                        error |-> average.message])
        ELSE IF count.raised THEN HTTPException(500, [text |-> "Internal server error",
                                                      error |-> count.message])
        ELSE [status_code |-> 200,
              body |-> [analytics_type |-> analytics_type,
                        total |-> total.value.value,
                        average |-> average.value.value,
                        count |-> count.value.value,
                        filters_applied |-> FiltersApplied(Some(filters))]]

\* list(config["filter_fields"].keys()): the keys in insertion order.
Keys(filter_fields) == [i \in 1..Len(filter_fields) |-> filter_fields[i][1]]

\* Mutant of get_available_fields: the filterable names are taken from the
\* groupable fields.
get_available_fields_GroupableAsFilterable(analytics_type) ==
    IF analytics_type \notin AnalyticsType
    THEN RequestValidationError
    ELSE
    LET config == get_config(analytics_type).value
    IN  [status_code |-> 200,
         body |-> [analytics_type |-> analytics_type,
                   aggregatable_fields |-> config.aggregatable_fields,
                   groupable_fields |-> config.groupable_fields,
                   filterable_fields |-> config.groupable_fields]]

\* GET /api/v1/fields (get_available_fields).  The handler has no try/except:
\* an exception of get_config would be the server's plain 500.
get_available_fields(analytics_type) ==
    IF analytics_type \notin AnalyticsType
    THEN RequestValidationError
    ELSE
    LET cfg == get_config(analytics_type)
    IN  IF cfg.raised
        THEN [status_code |-> 500, detail |-> "Internal Server Error"]
        ELSE LET config == cfg.value
             IN  [status_code |-> 200,
                  body |-> [analytics_type |-> analytics_type,
                            aggregatable_fields |-> config.aggregatable_fields,
                            groupable_fields |-> config.groupable_fields,
                            filterable_fields |-> Keys(config.filter_fields)]]

\* ------------------------------------------------------------------ inputs

\* The records the store is populated from: per record two text values
\* (g1, g2), two numeric values (v1, v2) and a date, each possibly NULL.
Pool ==
    << [g1 |-> Some("A"),    g2 |-> Some("X"), v1 |-> Some(3), v2 |-> Some(1), dt |-> Some(2)],
       [g1 |-> Some("A"),    g2 |-> Some("Y"), v1 |-> Some(5), v2 |-> None,    dt |-> Some(3)],
       [g1 |-> None,         g2 |-> Some("X"), v1 |-> None,    v2 |-> Some(4), dt |-> Some(1)],
       [g1 |-> Some("None"), g2 |-> Some("Y"), v1 |-> Some(0), v2 |-> Some(2), dt |-> None] >>

\* A sales transaction, a food order and a subscription built from a pool entry.
SalesRecord(k) ==
    [id |-> Some(k), product_name |-> Some("Laptop"), category |-> Pool[k].g1,
     amount |-> Pool[k].v1, quantity |-> Pool[k].v2, region |-> Pool[k].g2,
     customer_id |-> Some("CUST_1"), payment_method |-> Some("credit_card"),
     sale_date |-> Pool[k].dt, created_at |-> Some(0)]

FoodRecord(k) ==
    [id |-> Some(k), order_id |-> Some(k), restaurant_name |-> Some("Pizza Palace"),
     cuisine_type |-> Pool[k].g2, order_amount |-> Pool[k].v1,
     delivery_fee |-> Some(0), tip_amount |-> Some(0), total_amount |-> Pool[k].v1,
     customer_id |-> Some("CUST_1"), city |-> Pool[k].g1,
     delivery_status |-> Some("delivered"), order_date |-> Pool[k].dt,
     delivery_time_minutes |-> Pool[k].v2, created_at |-> Some(0)]

SaasRecord(k) ==
    [id |-> Some(k), subscription_id |-> Some(k), customer_id |-> Some("CUST_1"),
     plan_name |-> Pool[k].g1, plan_type |-> Some("monthly"), amount |-> Pool[k].v2,
     status |-> Pool[k].g2, currency |-> Some("USD"),
     billing_cycle_start |-> Pool[k].dt, billing_cycle_end |-> Pool[k].dt,
     created_at |-> Some(0), cancelled_at |-> None, mrr |-> Pool[k].v1]

\* The pool entries with index in S, as a table in index order from k on.
RECURSIVE Table(_, _, _)
Table(analytics_type, S, k) ==
    IF k > Len(Pool) THEN <<>>
    ELSE (IF k \in S
          THEN << CASE analytics_type = "sales" -> SalesRecord(k)
                    [] analytics_type = "food_delivery" -> FoodRecord(k)
                    [] analytics_type = "saas" -> SaasRecord(k) >>
          ELSE <<>>)
         \o Table(analytics_type, S, k + 1)

\* The stores the model starts from: the three tables hold the same pool entries.
Stores ==
    {[t \in AnalyticsType |-> Table(t, S, 1)] :
        S \in {T \in SUBSET (1..Len(Pool)) : Cardinality(T) <= MaxRecords}}

\* The request inputs tried for each domain: the columns that g1, g2, v1, v2
\* populate, and a filter parameter that the domain does not bind.
DomainInputs ==
    [sales |-> [g1 |-> "category", g2 |-> "region", v1 |-> "amount",
                v2 |-> "quantity", unbound |-> "city"],
     food_delivery |-> [g1 |-> "city", g2 |-> "cuisine_type", v1 |-> "total_amount",
                        v2 |-> "delivery_time_minutes", unbound |-> "category"],
     saas |-> [g1 |-> "plan_name", g2 |-> "status", v1 |-> "mrr",
               v2 |-> "amount", unbound |-> "category"]]

TypeInputs == AnalyticsType \cup {"invalid"}

FieldInputs(t) ==
    IF t \in AnalyticsType
    THEN {DomainInputs[t].v1, DomainInputs[t].v2, "id"}
    ELSE {"amount"}

GroupInputs(t) ==
    IF t \in AnalyticsType
    THEN {None, Some(""), Some(DomainInputs[t].g1), Some(DomainInputs[t].g2),
          Some("customer_id")}
    ELSE {None}

\* (parameter, value) pairs a request may carry.
ParamChoices(t) ==
    {<<DomainInputs[t].g1, "">>, <<DomainInputs[t].g1, "A">>,
     <<DomainInputs[t].g2, "X">>, <<DomainInputs[t].unbound, "A">>,
     <<"customer_id", "CUST_2">>,
     <<"start_date", 2>>, <<"end_date", 2>>}

\* The filter query parameters of a request: at most MaxFilters of them given.
ParamInputs(t) ==
    IF t \notin AnalyticsType THEN {NoFilters}
    ELSE {[p \in FilterParams |->
              IF \E c \in C : c[1] = p
              THEN Some((CHOOSE c \in C : c[1] = p)[2])
              ELSE None] :
          C \in {D \in SUBSET ParamChoices(t) :
                    /\ Cardinality(D) <= MaxFilters
                    /\ \A c1, c2 \in D : c1[1] = c2[1] => c1 = c2}}

ChartTypeInputs == {"bar", "pie"}

\* The orders the store may return the groups of a grouped query in.
OrderInputs(store, t, group_by) ==
    IF t \in AnalyticsType /\ TruthyStr(group_by)
       /\ group_by[1] \in ANALYTICS_CONFIG[t].model
    THEN StoreOrders(store[t], group_by[1])
    ELSE {<<>>}

\* ------------------------------------------------------------------ system

\* The endpoints of the read-only core.
CoreEndpoints == {"aggregate", "chart", "summary", "fields"}

NoReq == [endpoint |-> "none"]

NoResp == [status_code |-> 0]

\* The requests the server handles at the same time.
Requests == 1..MaxRequests

\* The import operations that may run at the same time.
Importers == 1..MaxImports

\* An importer that runs no import.
IdleImporter == [pc |-> "idle"]

\* No metrics summary in progress.
IdleSummary == [pc |-> "idle"]

\* A worker with no request: no endpoint, no session, no response.
IdleWorker == [pc |-> "idle", endpoint |-> "none", db |-> None, resp |-> NoResp]

Init ==
    /\ db \in Stores
    /\ pc = "idle"
    /\ req = NoReq
    /\ resp = NoResp
    /\ sessions = {}
    /\ worker = [r \in Requests |-> IdleWorker]
    /\ importer = [i \in Importers |-> IdleImporter]
    /\ summary = IdleSummary

\* A client calls GET /api/v1/aggregate and the handler runs to its response.
GetAggregation ==
    /\ pc = "idle"
    /\ \E t \in TypeInputs, a \in AggregationType :
       \E f \in FieldInputs(t), g \in GroupInputs(t), ps \in ParamInputs(t) :
       \E order \in OrderInputs(db, t, g) :
          /\ req' = [endpoint |-> "aggregate", analytics_type |-> t,
                     aggregation_type |-> a, field |-> f, group_by |-> g,
                     params |-> ps, order |-> order]
          /\ resp' = get_aggregation(db, t, a, f, g, ps, order)
    /\ pc' = "done"
    /\ UNCHANGED <<db, sessions, worker, importer, summary>>

\* A client calls GET /api/v1/chart.
GetChartData ==
    /\ pc = "idle"
    /\ \E t \in TypeInputs, c \in ChartTypeInputs :
       \E f \in FieldInputs(t), g \in GroupInputs(t), ps \in ParamInputs(t) :
       \E order \in OrderInputs(db, t, g) :
          /\ req' = [endpoint |-> "chart", analytics_type |-> t, chart_type |-> c,
                     field |-> f, group_by |-> g, params |-> ps, order |-> order]
          /\ resp' = get_chart_data(db, t, c, f, g, ps, order)
    /\ pc' = "done"
    /\ UNCHANGED <<db, sessions, worker, importer, summary>>

\* A client calls GET /api/v1/metrics/summary.
GetMetricsSummary ==
    /\ pc = "idle"
    /\ \E t \in TypeInputs :
       \E ps \in ParamInputs(t) :
          /\ req' = [endpoint |-> "summary", analytics_type |-> t, params |-> ps]
          /\ resp' = get_metrics_summary(db, t, ps)
    /\ pc' = "done"
    /\ UNCHANGED <<db, sessions, worker, importer, summary>>

\* Mutant of GetAvailableFields: the handler deletes the stored sales records.
GetAvailableFields_DeletesRecords ==
    /\ pc = "idle"
    /\ \E t \in TypeInputs :
          /\ req' = [endpoint |-> "fields", analytics_type |-> t]
          /\ resp' = get_available_fields(t)
    /\ pc' = "done"
    /\ db' = [db EXCEPT !.sales = <<>>]
    /\ UNCHANGED <<sessions, worker, importer, summary>>

\* A client calls GET /api/v1/fields.
GetAvailableFields ==
    /\ pc = "idle"
    /\ \E t \in TypeInputs :
          /\ req' = [endpoint |-> "fields", analytics_type |-> t]
          /\ resp' = get_available_fields(t)
    /\ pc' = "done"
    /\ UNCHANGED <<db, sessions, worker, importer, summary>>

\* The response is sent and the request ends.
Complete ==
    /\ pc = "done"
    /\ pc' = "idle"
    /\ req' = NoReq
    /\ resp' = NoResp
    /\ UNCHANGED <<db, sessions, worker, importer, summary>>

Next ==
    \/ GetAggregation
    \/ GetChartData
    \/ GetMetricsSummary
    \/ GetAvailableFields
    \/ Complete

Spec == Init /\ [][Next]_vars

\* ------------------------------------------------------------------ server

\* SessionLocal(): a new Session object, distinct from every live one.
SessionLocal(live) ==
    CHOOSE s \in 1..MaxSessions :
        s \notin live /\ \A u \in (1..MaxSessions) \ live : s <= u

\* Mutant of get_db_exit: db.close() follows the yield without try/finally,
\* so it is skipped when the request raised.
get_db_exit_NoFinally(open, session, raised) ==
    IF raised THEN open ELSE open \ {session}

\* get_db after the yield: "finally: db.close()", whether or not the request
\* raised.
get_db_exit(open, session, raised) == open \ {session}

\* What a worker keeps of a response: the status and, for an error, the detail.
Outcome(response) ==
    IF response.status_code = 200 THEN [status_code |-> 200] ELSE response

\* The aggregation kinds and group_by values the server's requests carry.
ServerKinds == {"sum", "max"}

ServerGroups(t) ==
    IF t \in AnalyticsType
    THEN {None, Some(DomainInputs[t].g1), Some("customer_id")}
    ELSE {None}

\* The server receives a request for the endpoint: FastAPI resolves
\* Depends(get_db), which creates the request's session and yields it.  The
\* fields endpoint declares no session.
Receive(r) ==
    /\ worker[r].pc = "idle"
    /\ \E e \in CoreEndpoints :
          IF e = "fields"
          THEN /\ worker' = [worker EXCEPT ![r] =
                                [pc |-> "ready", endpoint |-> e, db |-> None,
                                 resp |-> NoResp]]
               /\ UNCHANGED sessions
          ELSE /\ Cardinality(sessions) < MaxSessions
               /\ LET session == SessionLocal(sessions)
                  IN  /\ sessions' = sessions \cup {session}
                      /\ worker' = [worker EXCEPT ![r] =
                                       [pc |-> "ready", endpoint |-> e,
                                        db |-> Some(session), resp |-> NoResp]]
    /\ UNCHANGED <<db, pc, req, resp, importer, summary>>

\* The handler of the worker's request runs to its response or its
\* exception; the statements it executes on its session may fail.
Handle(r) ==
    /\ worker[r].pc = "ready"
    /\ \E fault \in BOOLEAN, t \in TypeInputs :
       LET store == IF fault THEN FailedStore ELSE db
       IN  \/ /\ worker[r].endpoint = "aggregate"
              /\ \E a \in ServerKinds, f \in FieldInputs(t), g \in ServerGroups(t) :
                 \E order \in OrderInputs(db, t, g) :
                    worker' = [worker EXCEPT ![r].pc = "done",
                                  ![r].resp = Outcome(get_aggregation(
                                      store, t, a, f, g, NoFilters, order))]
           \/ /\ worker[r].endpoint = "chart"
              /\ \E f \in FieldInputs(t), g \in ServerGroups(t) :
                 \E order \in OrderInputs(db, t, g) :
                    worker' = [worker EXCEPT ![r].pc = "done",
                                  ![r].resp = Outcome(get_chart_data(
                                      store, t, "bar", f, g, NoFilters, order))]
           \/ /\ worker[r].endpoint = "summary"
              /\ worker' = [worker EXCEPT ![r].pc = "done",
                                ![r].resp = Outcome(get_metrics_summary(
                                    store, t, NoFilters))]
           \/ /\ worker[r].endpoint = "fields"
              /\ worker' = [worker EXCEPT ![r].pc = "done",
                                ![r].resp = Outcome(get_available_fields(t))]
    /\ UNCHANGED <<db, pc, req, resp, sessions, importer, summary>>

\* The response or the error goes out and the dependency is resumed after
\* its yield: the request's session is closed.
Finish(r) ==
    /\ worker[r].pc = "done"
    /\ sessions' = IF worker[r].db = None THEN sessions
                   ELSE get_db_exit(sessions, worker[r].db[1],
                                    worker[r].resp.status_code # 200)
    /\ worker' = [worker EXCEPT ![r] = IdleWorker]
    /\ UNCHANGED <<db, pc, req, resp, importer, summary>>

ServerNext == \E r \in Requests : Receive(r) \/ Handle(r) \/ Finish(r)

ServerSpec == Init /\ [][ServerNext]_vars

\* ------------------------------------------------------------------ imports

\* A cell of a row of an imported file: the column is absent from the row, or
\* it holds text that float() and parse_date read as n, or text they refuse.
Missing == <<>>

Text(n) == <<"text", n>>

Garbage == <<"garbage">>

\* float(row.get(column, default)) and int(row.get(column, default)).
Float(cell, default) ==
    IF cell = Missing THEN Return(default)
    ELSE IF cell[1] = "garbage"
    THEN Raise("ValueError", [text |-> "could not convert string to float"])
    ELSE Return(cell[2])

\* DataImporter.parse_date(row.get(column, datetime.now().isoformat())).
parse_date(cell, now) ==
    IF cell = Missing THEN Return(now)
    ELSE IF cell[1] = "garbage"
    THEN Raise("ValueError", [text |-> "Unable to parse date"])
    ELSE Return(cell[2])

\* The first of the conversions of a row that raises, in the order given.
FirstRaised(conversions) ==
    LET raised == {i \in DOMAIN conversions : conversions[i].raised}
    IN  IF raised = {} THEN None
        ELSE Some(conversions[CHOOSE i \in raised : \A j \in raised : i <= j])

\* SalesTransaction(...) built from a row by import_sales_from_csv.
SalesObject(row) ==
    LET amount == Float(row.amount, 0)
        quantity == Float(row.quantity, 1)
        sale_date == parse_date(row.sale_date, 0)
        raised == FirstRaised(<<amount, quantity, sale_date>>)
    IN  IF raised # None THEN raised[1]
        ELSE Return([id |-> None, product_name |-> Some("Laptop"),
                     category |-> Some(row.category), amount |-> Some(amount.value),
                     quantity |-> Some(quantity.value), region |-> Some("North"),
                     customer_id |-> Some("CUST_1"),
                     payment_method |-> Some("credit_card"),
                     sale_date |-> Some(sale_date.value), created_at |-> Some(0)])

\* FoodOrder(...) built from a row by import_food_orders_from_csv: the
\* total_amount is the one of the file, 0 when the column is absent.
FoodObject(row) ==
    LET order_amount == Float(row.order_amount, 0)
        delivery_fee == Float(row.delivery_fee, 0)
        tip_amount == Float(row.tip_amount, 0)
        total_amount == Float(row.total_amount, 0)
        order_date == parse_date(row.order_date, 0)
        raised == FirstRaised(<<order_amount, delivery_fee, tip_amount,
                                total_amount, order_date>>)
    IN  IF raised # None THEN raised[1]
        ELSE Return([id |-> None, order_id |-> Some(row.order_id),
                     restaurant_name |-> Some("Pizza Palace"),
                     cuisine_type |-> Some("Italian"),
                     order_amount |-> Some(order_amount.value),
                     delivery_fee |-> Some(delivery_fee.value),
                     tip_amount |-> Some(tip_amount.value),
                     total_amount |-> Some(total_amount.value),
                     customer_id |-> Some("CUST_1"), city |-> Some(row.city),
                     delivery_status |-> Some("pending"),
                     order_date |-> Some(order_date.value),
                     delivery_time_minutes |-> None, created_at |-> Some(0)])

\* Subscription(...) built from a row by import_subscriptions_from_csv: the
\* mrr is the one of the file, 0 when the column is absent.
SubscriptionObject(row) ==
    LET billing_start == parse_date(row.billing_cycle_start, 0)
        billing_end == parse_date(row.billing_cycle_end, 0)
        amount == Float(row.amount, 0)
        mrr == Float(row.mrr, 0)
        raised == FirstRaised(<<billing_start, billing_end, amount, mrr>>)
    IN  IF raised # None THEN raised[1]
        ELSE Return([id |-> None, subscription_id |-> Some(row.subscription_id),
                     customer_id |-> Some("CUST_1"), plan_name |-> Some(row.plan_name),
                     plan_type |-> Some(row.plan_type), amount |-> Some(amount.value),
                     status |-> Some("active"), currency |-> Some("USD"),
                     billing_cycle_start |-> Some(billing_start.value),
                     billing_cycle_end |-> Some(billing_end.value),
                     created_at |-> Some(0), cancelled_at |-> None,
                     mrr |-> Some(mrr.value)])

\* Mutant of NaturalKey: the sales import looks for the category of its rows
\* in the store and skips the rows it finds.
NaturalKey_SalesKeyed(analytics_type) ==
    IF analytics_type = "food_delivery" THEN Some("order_id")
    ELSE IF analytics_type = "saas" THEN Some("subscription_id")
    ELSE Some("category")

\* The column an import looks up before it builds the object of a row:
\* order_id for food orders, subscription_id for subscriptions, none for
\* sales transactions.
NaturalKey(analytics_type) ==
    IF analytics_type = "food_delivery" THEN Some("order_id")
    ELSE IF analytics_type = "saas" THEN Some("subscription_id")
    ELSE None

\* Mutant of UniqueColumn: no model declares a unique constraint.
UniqueColumn_NoConstraint(analytics_type) == None

\* The column declared unique=True of a model, if any.
UniqueColumn(analytics_type) ==
    IF analytics_type = "food_delivery" THEN Some("order_id")
    ELSE IF analytics_type = "saas" THEN Some("subscription_id")
    ELSE None

\* db.query(Model).filter(Model.key == key).first() is not None.
Existing(table, column, key) ==
    \E i \in DOMAIN table : table[i][column] = Some(key)

\* One turn of the loop over the rows of an import: the row is skipped when
\* its natural key is stored, else the object is built and appended to the
\* list of the import; a conversion that fails raises.
ReadRow(store, analytics_type, row) ==
    LET column == NaturalKey(analytics_type)
        object == CASE analytics_type = "sales" -> SalesObject(row)
                    [] analytics_type = "food_delivery" -> FoodObject(row)
                    [] analytics_type = "saas" -> SubscriptionObject(row)
    IN  IF column # None /\ Existing(store[analytics_type], column[1], row[column[1]])
        THEN [kind |-> "skipped"]
        ELSE IF object.raised THEN [kind |-> "raised", error |-> object]
        ELSE [kind |-> "object", object |-> object.value]

\* The primary key the store gives the next inserted record (autoincrement).
RECURSIVE NextId(_)
NextId(table) ==
    IF table = <<>> THEN 1
    ELSE LET rest == NextId(Tail(table))
             mine == Head(table).id[1] + 1
         IN  IF mine > rest THEN mine ELSE rest

\* The INSERTs of db.bulk_save_objects(objects) inside the transaction, one
\* object after the other: an object whose unique column equals the one of a
\* record of the table (inserted before it or stored) raises IntegrityError
\* and ends the statement; a fault of the store raises OperationalError.
\* flushed is the table as the transaction sees it when the call ends.
RECURSIVE bulk_save_objects(_, _, _, _)
bulk_save_objects(table, analytics_type, objects, fault) ==
    IF objects = <<>> THEN [raised |-> FALSE, flushed |-> table]
    ELSE IF fault
    THEN [raised |-> TRUE, flushed |-> table,
          error |-> Raise("OperationalError", [text |-> Failure[1].error])]
    ELSE LET column == UniqueColumn(analytics_type)
             object == Head(objects)
         IN  IF column # None
                /\ \E i \in DOMAIN table : table[i][column[1]] = object[column[1]]
             THEN [raised |-> TRUE, flushed |-> table,
                   error |-> Raise("IntegrityError",
                                   [text |-> "UNIQUE constraint failed",
                                    column |-> column[1]])]
             ELSE bulk_save_objects(
                      Append(table, [object EXCEPT !.id = Some(NextId(table))]),
                      analytics_type, Tail(objects), fault)

\* Mutant of rollback: what the transaction had inserted stays in the store.
rollback_KeepsInserted(committed, flushed) == flushed

\* db.rollback(): the store is what it was when the transaction began.
rollback(committed, flushed) == committed

\* The response of an import route: the number of records imported, or 400
\* with the text of the exception.
ImportResponse(analytics_type, result) ==
    IF result.raised
    THEN HTTPException(400, [text |-> "Error importing data", error |-> result.message])
    ELSE [status_code |-> 200,
          body |-> [status |-> "success", analytics_type |-> analytics_type,
                    records_imported |-> result.value]]

\* The rows the imported files are made of.  Sales: two good rows and one with
\* an amount that is no number.
SalesRows ==
    {[category |-> "A", amount |-> Text(3), quantity |-> Text(1), sale_date |-> Text(2)],
     [category |-> "B", amount |-> Text(5), quantity |-> Missing, sale_date |-> Missing],
     [category |-> "A", amount |-> Garbage, quantity |-> Text(1), sale_date |-> Text(2)]}

\* Food orders: one whose total_amount is the sum of its parts, one without a
\* total_amount column, one with a date that cannot be parsed.
FoodRows ==
    {[order_id |-> 1, city |-> "Delhi", order_amount |-> Text(3), delivery_fee |-> Text(1),
      tip_amount |-> Text(1), total_amount |-> Text(5), order_date |-> Text(2)],
     [order_id |-> 2, city |-> "Mumbai", order_amount |-> Text(3), delivery_fee |-> Text(1),
      tip_amount |-> Missing, total_amount |-> Missing, order_date |-> Missing],
     [order_id |-> 2, city |-> "Delhi", order_amount |-> Text(3), delivery_fee |-> Text(1),
      tip_amount |-> Text(1), total_amount |-> Text(5), order_date |-> Garbage]}

\* Subscriptions: a monthly one with mrr = amount, an annual one without an
\* mrr column, one with an amount that is no number.
SubscriptionRows ==
    {[subscription_id |-> 1, plan_name |-> "Basic", plan_type |-> "monthly",
      amount |-> Text(5), mrr |-> Text(5), billing_cycle_start |-> Text(2),
      billing_cycle_end |-> Text(3)],
     [subscription_id |-> 2, plan_name |-> "Pro", plan_type |-> "annual",
      amount |-> Text(12), mrr |-> Missing, billing_cycle_start |-> Missing,
      billing_cycle_end |-> Missing],
     [subscription_id |-> 2, plan_name |-> "Basic", plan_type |-> "monthly",
      amount |-> Garbage, mrr |-> Text(5), billing_cycle_start |-> Text(2),
      billing_cycle_end |-> Text(3)]}

\* The files of at most MaxRows rows made of the rows given.
FilesOf(rows) ==
    UNION {[1..n -> rows] : n \in 1..MaxRows}

\* The files an import may be given, per domain.
Files(analytics_type) ==
    CASE analytics_type = "sales" -> FilesOf(SalesRows)
      [] analytics_type = "food_delivery" -> FilesOf(FoodRows)
      [] analytics_type = "saas" -> FilesOf(SubscriptionRows)

\* The store before any seed or import: the tables created by init_db.
EmptyStore == [t \in AnalyticsType |-> <<>>]

\* The number of records of the store.
TotalStored(store) ==
    Len(store["sales"]) + Len(store["food_delivery"]) + Len(store["saas"])

\* An import route is called with a file: the importer opens the file.
ImportStart(i, domains) ==
    /\ importer[i].pc = "idle"
    /\ \E t \in domains : \E file \in Files(t) :
          /\ TotalStored(db) + Len(file) <= MaxStored
          /\ importer' = [importer EXCEPT ![i] =
                 [pc |-> "reading", analytics_type |-> t, file |-> file,
                  rows |-> file, objects |-> <<>>, skipped |-> 0]]
    /\ UNCHANGED <<db, pc, req, resp, sessions, worker, summary>>

\* The import reads its next row; "except Exception: db.rollback(); raise"
\* ends the import when a conversion of the row fails.
ImportRow(i) ==
    /\ importer[i].pc = "reading"
    /\ importer[i].rows # <<>>
    /\ LET me == importer[i]
           read == ReadRow(db, me.analytics_type, Head(me.rows))
       IN  importer' = [importer EXCEPT ![i] =
               CASE read.kind = "skipped" ->
                      [me EXCEPT !.rows = Tail(me.rows), !.skipped = me.skipped + 1]
                 [] read.kind = "object" ->
                      [me EXCEPT !.rows = Tail(me.rows),
                                 !.objects = Append(me.objects, read.object)]
                 [] read.kind = "raised" ->
                      [pc |-> "done", analytics_type |-> me.analytics_type,
                       file |-> me.file, objects |-> me.objects,
                       skipped |-> me.skipped,
                       response |-> ImportResponse(me.analytics_type, read.error)]]
    /\ UNCHANGED <<db, pc, req, resp, sessions, worker, summary>>

\* The rows are read: db.bulk_save_objects(objects); db.commit(); return
\* len(objects), or "except Exception: db.rollback(); raise".
ImportSave(i) ==
    /\ importer[i].pc = "reading"
    /\ importer[i].rows = <<>>
    /\ \E fault \in BOOLEAN :
       LET me == importer[i]
           t == me.analytics_type
           saved == bulk_save_objects(db[t], t, me.objects, fault)
       IN  /\ db' = [db EXCEPT ![t] = IF saved.raised
                                      THEN rollback(db[t], saved.flushed)
                                      ELSE saved.flushed]
           /\ importer' = [importer EXCEPT ![i] =
                  [pc |-> "done", analytics_type |-> t, file |-> me.file,
                   objects |-> me.objects, skipped |-> me.skipped,
                   response |-> ImportResponse(t,
                                    IF saved.raised THEN saved.error
                                    ELSE Return(Len(me.objects)))]]
    /\ UNCHANGED <<pc, req, resp, sessions, worker, summary>>

\* "finally: db.close()" and the response of the route is sent.
ImportFinish(i) ==
    /\ importer[i].pc = "done"
    /\ importer' = [importer EXCEPT ![i] = IdleImporter]
    /\ UNCHANGED <<db, pc, req, resp, sessions, worker, summary>>

\* round(n / d, 2) of an amount in hundredths: the nearest hundredth.
Round(n, d) == (2 * n + d) \div (2 * d)

\* The records seed_sales_transactions, seed_food_orders and
\* seed_subscriptions generate (amounts in hundredths): the total_amount of an
\* order is the sum of its parts, the mrr of a subscription is its amount when
\* monthly and round(amount / 12, 2) when annual.
SeedObjects(analytics_type, fresh) ==
    CASE analytics_type = "sales" ->
           {SalesObject([category |-> "A", amount |-> Text(3), quantity |-> Text(1),
                         sale_date |-> Text(1)]).value}
      [] analytics_type = "food_delivery" ->
           {[FoodObject([order_id |-> 0 - fresh, city |-> "Delhi",
                         order_amount |-> Text(3), delivery_fee |-> Text(1),
                         tip_amount |-> Text(tip), total_amount |-> Text(3 + 1 + tip),
                         order_date |-> Text(1)]).value
                EXCEPT !.delivery_status = Some("delivered"),
                       !.delivery_time_minutes = Some(15)] : tip \in {0, 1}}
      [] analytics_type = "saas" ->
           {SubscriptionObject([subscription_id |-> 0 - fresh, plan_name |-> "Basic",
                                plan_type |-> plan[1], amount |-> Text(plan[2]),
                                mrr |-> Text(IF plan[1] = "monthly" THEN plan[2]
                                             ELSE Round(plan[2], 12)),
                                billing_cycle_start |-> Text(1),
                                billing_cycle_end |-> Text(2)]).value :
               plan \in {<<"monthly", 999>>, <<"annual", 9999>>}}

\* seed_sales_transactions, seed_food_orders or seed_subscriptions saves and
\* commits a generated record.
Seed ==
    /\ \E t \in AnalyticsType :
          /\ TotalStored(db) < MaxStored
          /\ \E object \in SeedObjects(t, NextId(db[t])) :
                db' = [db EXCEPT ![t] =
                          bulk_save_objects(db[t], t, <<object>>, FALSE).flushed]
    /\ UNCHANGED <<pc, req, resp, sessions, worker, importer, summary>>

\* "Clear existing data" of seed_all: the three tables are emptied.
ClearData ==
    /\ db # EmptyStore
    /\ db' = EmptyStore
    /\ UNCHANGED <<pc, req, resp, sessions, worker, importer, summary>>

\* The state before any seed or import.
ImportInit ==
    /\ db = EmptyStore
    /\ pc = "idle"
    /\ req = NoReq
    /\ resp = NoResp
    /\ sessions = {}
    /\ worker = [r \in Requests |-> IdleWorker]
    /\ importer = [i \in Importers |-> IdleImporter]
    /\ summary = IdleSummary

\* Seeds and imports, one operation at a time.
ImportNext ==
    \/ ImportStart(1, AnalyticsType)
    \/ ImportRow(1)
    \/ ImportSave(1)
    \/ ImportFinish(1)
    \/ Seed
    \/ ClearData

ImportSpec == ImportInit /\ [][ImportNext]_vars

\* Concurrent imports of food orders and subscriptions: each import checks
\* its keys and saves in a transaction of its own.
RaceNext ==
    \E i \in Importers :
       \/ ImportStart(i, {"food_delivery", "saas"})
       \/ ImportRow(i)
       \/ ImportSave(i)
       \/ ImportFinish(i)

RaceSpec == ImportInit /\ [][RaceNext]_vars

\* One of the three ungrouped queries of get_metrics_summary, executed on the
\* store as it is when the query runs.
SummaryQuery(store, analytics_type, aggregation_type) ==
    aggregate(store, analytics_type, aggregation_type, PrimaryField(analytics_type),
              None, None, <<>>)

\* GET /api/v1/metrics/summary without filters is received.
SummaryStart ==
    /\ summary.pc = "idle"
    /\ \E t \in AnalyticsType :
          summary' = [pc |-> "total", analytics_type |-> t, read |-> <<>>]
    /\ UNCHANGED <<db, pc, req, resp, sessions, worker, importer>>

\* total_result = service.aggregate(..., AggregationType.SUM, ...)
SummaryTotal ==
    /\ summary.pc = "total"
    /\ summary' = [pc |-> "average", analytics_type |-> summary.analytics_type,
                   read |-> Append(summary.read, db[summary.analytics_type]),
                   total |-> SummaryQuery(db, summary.analytics_type, "sum").value.value]
    /\ UNCHANGED <<db, pc, req, resp, sessions, worker, importer>>

\* avg_result = service.aggregate(..., AggregationType.AVG, ...)
SummaryAverage ==
    /\ summary.pc = "average"
    /\ summary' = [pc |-> "count", analytics_type |-> summary.analytics_type,
                   read |-> Append(summary.read, db[summary.analytics_type]),
                   total |-> summary.total,
                   average |-> SummaryQuery(db, summary.analytics_type, "avg").value.value]
    /\ UNCHANGED <<db, pc, req, resp, sessions, worker, importer>>

\* count_result = service.aggregate(..., AggregationType.COUNT, ...) and the
\* response built from the three results.
SummaryCount ==
    /\ summary.pc = "count"
    /\ summary' = [pc |-> "done", analytics_type |-> summary.analytics_type,
                   read |-> Append(summary.read, db[summary.analytics_type]),
                   response |->
                      [status_code |-> 200,
                       body |-> [analytics_type |-> summary.analytics_type,
                                 total |-> summary.total,
                                 average |-> summary.average,
                                 count |-> SummaryQuery(db, summary.analytics_type,
                                                        "count").value.value,
                                 filters_applied |-> <<>>]]]
    /\ UNCHANGED <<db, pc, req, resp, sessions, worker, importer>>

\* The response is sent and the session of the request closed.
SummaryFinish ==
    /\ summary.pc = "done"
    /\ summary' = IdleSummary
    /\ UNCHANGED <<db, pc, req, resp, sessions, worker, importer>>

\* A metrics summary served while imports of sales transactions run.
SummaryNext ==
    \/ SummaryStart
    \/ SummaryTotal
    \/ SummaryAverage
    \/ SummaryCount
    \/ SummaryFinish
    \/ ImportStart(1, {"sales"})
    \/ ImportRow(1)
    \/ ImportSave(1)
    \/ ImportFinish(1)

SummarySpec == ImportInit /\ [][SummaryNext]_vars

\* ------------------------------------------------------------------ claims

\* A request of the endpoint has been handled and resp is its response.
Handled(endpoint) == pc = "done" /\ req.endpoint = endpoint

\* The request names one of the three domains, so the handler reaches the service.
ReachesService == req.analytics_type \in AnalyticsType

AggregatableOf(t) == Range(ANALYTICS_CONFIG[t].aggregatable_fields)

GroupableOf(t) == Range(ANALYTICS_CONFIG[t].groupable_fields)

\* The response is the 400 of a ValueError with the given text and valid set.
IsClientError(r, text, valid) ==
    /\ r.status_code = 400
    /\ "body" \notin DOMAIN r
    /\ r.detail.text = text
    /\ r.detail.valid = valid

\* C1: an aggregate request whose field is not one of the domain's
\* aggregatable_fields fails with the invalid-field error (HTTP 400, the
\* message naming the valid fields) and carries no result, whatever the
\* aggregation kind, group_by and filters.
C1_InvalidFieldFails ==
    (Handled("aggregate") /\ ReachesService
        /\ req.field \notin AggregatableOf(req.analytics_type))
    => IsClientError(resp, "Invalid field",
                     ANALYTICS_CONFIG[req.analytics_type].aggregatable_fields)

\* C1 witness: an invalid field together with a valid group_by and a filter.
C1_Witness ==
    /\ Handled("aggregate") /\ ReachesService
    /\ req.field \notin AggregatableOf(req.analytics_type)
    /\ req.group_by # None /\ req.group_by[1] \in GroupableOf(req.analytics_type)
    /\ HasFilters(req.params)
    /\ resp.status_code = 400

\* C2 as stated: whatever the field, a supplied group_by outside
\* groupable_fields fails with the invalid-group-field error.
C2_Original ==
    (Handled("aggregate") /\ ReachesService
        /\ TruthyStr(req.group_by)
        /\ req.group_by[1] \notin GroupableOf(req.analytics_type))
    => IsClientError(resp, "Invalid group_by field",
                     ANALYTICS_CONFIG[req.analytics_type].groupable_fields)

\* C2 amended: when the field is one of aggregatable_fields, a non-empty
\* group_by outside groupable_fields fails with the invalid-group-field error
\* (HTTP 400, the message naming the valid group fields), for every
\* aggregation kind and filter set.
C2_InvalidGroupFails ==
    (Handled("aggregate") /\ ReachesService
        /\ req.field \in AggregatableOf(req.analytics_type)
        /\ TruthyStr(req.group_by)
        /\ req.group_by[1] \notin GroupableOf(req.analytics_type))
    => IsClientError(resp, "Invalid group_by field",
                     ANALYTICS_CONFIG[req.analytics_type].groupable_fields)

\* C2 witness: min with a valid field and an invalid group_by is rejected.
C2_Witness ==
    /\ Handled("aggregate") /\ ReachesService
    /\ req.aggregation_type = "min"
    /\ req.field \in AggregatableOf(req.analytics_type)
    /\ TruthyStr(req.group_by)
    /\ req.group_by[1] \notin GroupableOf(req.analytics_type)
    /\ resp.status_code = 400

\* The outcome aggregate must have by the order domain, field, group_by.
ExpectedCheck(t, field, group_by) ==
    IF t \notin AnalyticsType THEN "Unsupported analytics type"
    ELSE IF field \notin AggregatableOf(t) THEN "Invalid field"
    ELSE IF TruthyStr(group_by) /\ group_by[1] \notin GroupableOf(t)
    THEN "Invalid group_by field"
    ELSE "ok"

\* C3: aggregate validates the domain, then the field, then the group_by, and
\* reports only the first check that fails; it returns a result only when all
\* three pass.  Stated of the handled request, and of the service called with
\* the request's arguments under every analytics type, a registered one or not.
C3_ValidationOrder ==
    Handled("aggregate") =>
        /\ ReachesService =>
              LET e == ExpectedCheck(req.analytics_type, req.field, req.group_by)
              IN  IF e = "ok" THEN resp.status_code = 200 /\ "body" \in DOMAIN resp
                  ELSE resp.status_code = 400 /\ resp.detail.text = e
                       /\ "body" \notin DOMAIN resp
        /\ \A t \in TypeInputs, f \in {req.field, "id"},
              g \in {req.group_by, Some("customer_id")} :
              LET r == aggregate(db, t, req.aggregation_type, f, None, g, req.order)
                  e == ExpectedCheck(t, f, g)
              IN  IF e = "ok" THEN ~r.raised
                  ELSE r.raised /\ r.type = "ValueError" /\ r.message.text = e

\* C3 witness: a request with an invalid field and an invalid group_by has
\* been answered with the invalid-field error.
C3_Witness ==
    /\ Handled("aggregate") /\ ReachesService
    /\ req.field \notin AggregatableOf(req.analytics_type)
    /\ TruthyStr(req.group_by)
    /\ req.group_by[1] \notin GroupableOf(req.analytics_type)
    /\ resp.status_code = 400 /\ resp.detail.text = "Invalid field"

\* The filter argument the handlers pass to the service: filters if has_filters else None.
ServiceFilters(params) == IF HasFilters(params) THEN Some(params) ELSE None

\* A record satisfies every predicate the request's filters stand for: equality
\* on the bound attribute for each bound parameter given non-empty, and the
\* inclusive date bounds.
Satisfies(r, t, params) ==
    LET config == ANALYTICS_CONFIG[t]
    IN  /\ \A b \in Range(config.filter_fields) :
              TruthyStr(params[b[1]]) =>
                  r[b[2]] # None /\ r[b[2]][1] = params[b[1]][1]
        /\ params.start_date # None =>
              r[config.date_field] # None
              /\ r[config.date_field][1] >= params.start_date[1]
        /\ params.end_date # None =>
              r[config.date_field] # None
              /\ r[config.date_field][1] <= params.end_date[1]

\* The positions of the domain's records that satisfy the request's filters.
Matching(store, t, params) ==
    {i \in DOMAIN store[t] : Satisfies(store[t][i], t, params)}

\* The request is a valid ungrouped one.
ValidUngrouped ==
    /\ Handled("aggregate") /\ ReachesService
    /\ req.field \in AggregatableOf(req.analytics_type)
    /\ ~TruthyStr(req.group_by)

\* The request is a valid one with a group_by of the domain.
ValidGrouped ==
    /\ Handled("aggregate") /\ ReachesService
    /\ req.field \in AggregatableOf(req.analytics_type)
    /\ TruthyStr(req.group_by)
    /\ req.group_by[1] \in GroupableOf(req.analytics_type)

\* C4: for every domain, aggregation kind and valid field, an ungrouped
\* aggregate over filters that no record satisfies succeeds (200) with the
\* value 0.0, never a null and never an error.
C4_EmptyIsZero ==
    (ValidUngrouped /\ Matching(db, req.analytics_type, req.params) = {})
    => /\ resp.status_code = 200
       /\ resp.body.value = Some(Zero)

\* C4 witness: records are stored, the filters exclude them all, and the
\* answer to a min request is 0.0.
C4_Witness ==
    /\ ValidUngrouped
    /\ req.aggregation_type = "min"
    /\ db[req.analytics_type] # <<>>
    /\ Matching(db, req.analytics_type, req.params) = {}
    /\ resp.status_code = 200 /\ resp.body.value = Some(Zero)

RECURSIVE GroupTotal(_)
GroupTotal(groups) ==
    IF groups = <<>> THEN Zero
    ELSE RatAdd(Head(groups).value, GroupTotal(Tail(groups)))

\* The answer of the handled request's ungrouped counterpart: the same
\* request without group_by.
Ungrouped ==
    get_aggregation(db, req.analytics_type, req.aggregation_type, req.field,
                    None, req.params, <<>>)

\* C5: the values of the groups of a grouped sum add up to the value of the
\* ungrouped sum over the same records, field and filters, records with a
\* NULL group attribute or a NULL field included.
C5_SumAdditive ==
    (ValidGrouped /\ req.aggregation_type = "sum")
    => /\ resp.status_code = 200 /\ resp.body.groups # None
       /\ Ungrouped.status_code = 200
       /\ Some(GroupTotal(resp.body.groups[1])) = Ungrouped.body.value

\* C5 witness: a grouped sum with several groups, one of them of the NULL key
\* and one with two records.
C5_Witness ==
    /\ ValidGrouped /\ req.aggregation_type = "sum"
    /\ resp.status_code = 200
    /\ Len(resp.body.groups[1]) >= 2
    /\ \E i \in DOMAIN db[req.analytics_type] :
          db[req.analytics_type][i][req.group_by[1]] = None
    /\ \E g \in Range(resp.body.groups[1]) : g.value = <<8, 1>>

\* C6: the values of the groups of a grouped count add up to the value of
\* the ungrouped count over the same filters, which is the number of records
\* that satisfy them: every such record is counted in exactly one group.
C6_CountAdditive ==
    (ValidGrouped /\ req.aggregation_type = "count")
    => /\ resp.status_code = 200 /\ resp.body.groups # None
       /\ Ungrouped.status_code = 200
       /\ Some(GroupTotal(resp.body.groups[1])) = Ungrouped.body.value
       /\ GroupTotal(resp.body.groups[1])
            = Rat(Cardinality(Matching(db, req.analytics_type, req.params)), 1)

\* C6 witness: a grouped count over three records, one with a NULL field, in
\* at least two groups.
C6_Witness ==
    /\ ValidGrouped /\ req.aggregation_type = "count"
    /\ resp.status_code = 200
    /\ Len(resp.body.groups[1]) >= 2
    /\ GroupTotal(resp.body.groups[1]) = <<3, 1>>
    /\ \E i \in DOMAIN db[req.analytics_type] :
          db[req.analytics_type][i][req.field] = None

\* The filter parameters the handled endpoint accepts.
Accepted == IF req.endpoint = "summary" THEN SummaryParams ELSE FilterParams

\* A supplied parameter value is non-empty.
NonEmpty(p, v) == IF p \in DateParams THEN v # None ELSE TruthyStr(v)

\* The filters_applied of a successful response.
EchoedFilters ==
    IF req.endpoint = "chart" THEN resp.body.metadata.filters_applied
    ELSE resp.body.filters_applied

\* C7 as stated: in every successful aggregate, chart and summary response
\* filters_applied is exactly the mapping of the filter parameters supplied
\* with a non-empty value.
C7_FiltersAppliedExact ==
    (pc = "done" /\ req.endpoint \in {"aggregate", "chart", "summary"}
        /\ resp.status_code = 200)
    => EchoedFilters =
          [p \in {q \in Accepted : NonEmpty(q, req.params[q])} |-> req.params[p][1]]

\* The string parameters the domain's filter_fields do not bind.
Unbound(t) == StringParams \ {b[1] : b \in Range(ANALYTICS_CONFIG[t].filter_fields)}

\* The request's parameters without those the domain does not bind.
BoundOnly(t, params) == [p \in FilterParams |-> IF p \in Unbound(t) THEN None ELSE params[p]]

\* The answer to the handled request once the parameters that its domain does
\* not bind are taken out of it.
WithoutUnbound ==
    IF req.endpoint = "aggregate"
    THEN get_aggregation(db, req.analytics_type, req.aggregation_type, req.field,
                         req.group_by, BoundOnly(req.analytics_type, req.params),
                         req.order)
    ELSE get_chart_data(db, req.analytics_type, req.chart_type, req.field,
                        req.group_by, BoundOnly(req.analytics_type, req.params),
                        req.order)

\* C8: a filter parameter that is not a key of the domain's filter_fields is
\* ignored: the request fails or succeeds as it does without the parameter,
\* never with an internal error, and a successful answer has the same value
\* or groups (chart: the same data) as without it.
C8_UnboundIgnored ==
    ((Handled("aggregate") \/ Handled("chart")) /\ ReachesService
        /\ \E p \in Unbound(req.analytics_type) : TruthyStr(req.params[p]))
    => /\ resp.status_code = WithoutUnbound.status_code
       /\ resp.status_code # 500
       /\ resp.status_code # 200 => resp = WithoutUnbound
       /\ (resp.status_code = 200 /\ req.endpoint = "aggregate") =>
             /\ resp.body.value = WithoutUnbound.body.value
             /\ resp.body.groups = WithoutUnbound.body.groups
       /\ (resp.status_code = 200 /\ req.endpoint = "chart") =>
             resp.body.data = WithoutUnbound.body.data

\* C8 witness: an unbound parameter beside a bound one, answered with groups.
C8_Witness ==
    /\ Handled("aggregate") /\ ReachesService
    /\ \E p \in Unbound(req.analytics_type) : TruthyStr(req.params[p])
    /\ \E p \in StringParams \ Unbound(req.analytics_type) : TruthyStr(req.params[p])
    /\ resp.status_code = 200
    /\ resp.body.groups # None /\ resp.body.groups[1] # <<>>

\* C9: the records aggregate and get_chart_data compute over are exactly
\* the domain's records that satisfy every predicate of the filters (equality
\* per bound non-empty parameter, inclusive date bounds); an ungrouped count
\* returns their number.
C9_NarrowedSet ==
    ((Handled("aggregate") \/ Handled("chart")) /\ ReachesService)
    => LET t == req.analytics_type
           q == Query(db, t, ANALYTICS_CONFIG[t], ServiceFilters(req.params))
           M == Matching(db, t, req.params)
       IN  /\ Len(q) = Cardinality(M)
           /\ \A i \in DOMAIN db[t] : (i \in M) <=> (db[t][i] \in Range(q))
           /\ (ValidUngrouped /\ req.aggregation_type = "count") =>
                 resp.body.value = Some(Rat(Cardinality(M), 1))

\* C9 witness: an equality filter and an end date; one record satisfies both
\* (its date is the end date itself), one fails only the equality and one
\* fails only the date bound.
C9_Witness ==
    /\ ValidUngrouped /\ req.aggregation_type = "count"
    /\ req.params.end_date # None
    /\ \E p \in StringParams \ Unbound(req.analytics_type) : TruthyStr(req.params[p])
    /\ LET t == req.analytics_type
           onlyEq == [req.params EXCEPT !.end_date = None]
           onlyDate == [NoFilters EXCEPT !.end_date = req.params.end_date]
       IN  /\ \E i \in Matching(db, t, req.params) :
                 db[t][i][ANALYTICS_CONFIG[t].date_field] = req.params.end_date
           /\ \E i \in DOMAIN db[t] : i \in Matching(db, t, onlyDate)
                                       /\ i \notin Matching(db, t, onlyEq)
           /\ \E i \in DOMAIN db[t] : i \in Matching(db, t, onlyEq)
                                       /\ i \notin Matching(db, t, onlyDate)
    /\ resp.status_code = 200 /\ resp.body.value = Some(<<1, 1>>)

\* The request is a min or max one with a valid field.
ValidMinMax ==
    /\ Handled("aggregate") /\ ReachesService
    /\ req.aggregation_type \in {"min", "max"}
    /\ req.field \in AggregatableOf(req.analytics_type)

\* C10 as stated: for min and max the outcome with any supplied group_by is
\* the outcome of the same request without group_by.
C10_Original ==
    (ValidMinMax /\ req.group_by # None) => resp = Ungrouped

\* C10 amended: for min and max the outcome with a supplied group_by that is
\* empty or a member of the domain's groupable_fields is the outcome of the
\* same request without group_by: a single scalar value and no groups.
C10_MinMaxIgnoreGroupBy ==
    (ValidMinMax /\ req.group_by # None
        /\ (TruthyStr(req.group_by) => req.group_by[1] \in GroupableOf(req.analytics_type)))
    => /\ resp = Ungrouped
       /\ resp.status_code = 200
       /\ resp.body.value # None /\ resp.body.groups = None /\ resp.body.group_by = None

\* C10 witness: a max request with a valid group_by over records of two
\* groups is answered with one scalar.
C10_Witness ==
    /\ ValidMinMax /\ req.aggregation_type = "max"
    /\ TruthyStr(req.group_by) /\ req.group_by[1] \in GroupableOf(req.analytics_type)
    /\ \E i, j \in DOMAIN db[req.analytics_type] :
          db[req.analytics_type][i][req.group_by[1]]
             # db[req.analytics_type][j][req.group_by[1]]
    /\ resp.status_code = 200 /\ resp.body.value = Some(<<5, 1>>)

\* The chart request names a valid field and a valid group_by of its domain.
ValidChart ==
    /\ Handled("chart") /\ ReachesService
    /\ req.field \in AggregatableOf(req.analytics_type)
    /\ TruthyStr(req.group_by)
    /\ req.group_by[1] \in GroupableOf(req.analytics_type)

\* The grouped sum the aggregate endpoint answers for the chart request's
\* field, group_by and filters, the store returning the groups in the same order.
SumOfChart ==
    get_aggregation(db, req.analytics_type, "sum", req.field, req.group_by,
                    req.params, req.order)

\* A group of aggregate reshaped to a chart data point.
Reshaped(g) == [label |-> g.group, value |-> g.value, metadata |-> <<>>]

C11_EmptyChartReached ==
    /\ ValidChart
    /\ db[req.analytics_type] # <<>>
    /\ Matching(db, req.analytics_type, req.params) = {}
    /\ resp.status_code = 200 /\ resp.body.data = <<>>

\* C12: a chart request whose group_by is absent or empty fails with a client
\* error (a status of the 400 class) and carries no chart data: an absent
\* group_by is refused by the validation of the required parameter (422), an
\* empty one by the service's check (400), which names the valid group fields
\* when the field is valid.
C12_ChartRequiresGroupBy ==
    (Handled("chart") /\ ReachesService /\ ~TruthyStr(req.group_by))
    => /\ resp.status_code \in 400..499
       /\ "body" \notin DOMAIN resp
       /\ req.group_by = None => resp = RequestValidationError
       /\ (req.group_by = Some("") /\ req.field \in AggregatableOf(req.analytics_type)) =>
             IsClientError(resp, "Invalid group_by field",
                           ANALYTICS_CONFIG[req.analytics_type].groupable_fields)

\* C12 witness: a chart request with a valid field and an empty group_by over
\* a store with records is answered 400.
C12_Witness ==
    /\ Handled("chart") /\ ReachesService
    /\ req.group_by = Some("")
    /\ req.field \in AggregatableOf(req.analytics_type)
    /\ db[req.analytics_type] # <<>>
    /\ resp.status_code = 400

\* C12 second case reached: a chart request without group_by is answered 422.
C12_AbsentReached ==
    /\ Handled("chart") /\ ReachesService
    /\ req.group_by = None
    /\ resp.status_code = 422

\* C13: a step in which an aggregate, chart, metrics-summary or fields request
\* is handled, whether it succeeds or fails, leaves the stored records of all
\* three domains as they were.
C13_ReadOnlyCore ==
    [][(pc = "idle" /\ pc' = "done" /\ req'.endpoint \in CoreEndpoints) => db' = db]_vars

\* C13 witness: over a store with records, a request has failed (the records
\* are those the store started with, as the store is never written).
C13_Witness ==
    /\ pc = "done" /\ req.endpoint \in CoreEndpoints
    /\ resp.status_code = 400
    /\ \A t \in AnalyticsType : Len(db[t]) = MaxRecords

\* C13 fields endpoint reached: a fields request has
\* been answered over a store with records.
C13_FieldsReached ==
    /\ Handled("fields") /\ resp.status_code = 200 /\ db.sales # <<>>

\* The endpoints whose handler declares db: Session = Depends(get_db).
SessionEndpoints == {"aggregate", "chart", "summary"}

\* The workers that hold the session.
HoldersOf(session) == {r \in Requests : worker[r].db = Some(session)}

\* C14: every request of an endpoint that depends on get_db holds a session
\* of its own from the moment it is received until it completes; no two
\* requests hold the same session; and every open session is the session of
\* a request still being handled, so no session stays open after its request
\* has finished, whether the handler returned or raised.
C14_SessionPerRequest ==
    /\ \A r \in Requests :
          /\ worker[r].pc = "idle" => worker[r].db = None
          /\ (worker[r].pc # "idle" /\ worker[r].endpoint \in SessionEndpoints) =>
                (worker[r].db # None /\ worker[r].db[1] \in sessions)
    /\ \A r1, r2 \in Requests :
          (r1 # r2 /\ worker[r1].db # None) => worker[r1].db # worker[r2].db
    /\ \A session \in sessions :
          \E r \in HoldersOf(session) : worker[r].pc # "idle"

\* C14 witness: the first request has raised, has finished and its session
\* is closed, while the second request, answered with an internal error,
\* still holds its own open session.
C14_Witness ==
    /\ worker[1].pc = "idle" /\ worker[1].db = None
    /\ worker[2].pc = "done" /\ worker[2].resp.status_code = 500
    /\ worker[2].db = Some(2)
    /\ sessions = {2}

\* C14 also reached: two requests are being handled at the same time, each
\* with its own session, one answered with a validation error.
C14_ConcurrentReached ==
    /\ worker[1].pc = "done" /\ worker[1].resp.status_code = 400
    /\ worker[2].pc = "ready"
    /\ sessions = {1, 2}

\* C16 as stated: the 500 response of an aggregate or chart request that
\* failed for a reason other than a validation ValueError carries a generic
\* message only, without the text of the internal exception.
C16_GenericMessageOnly ==
    \A r \in Requests :
        (worker[r].pc = "done" /\ worker[r].endpoint \in {"aggregate", "chart"}
            /\ worker[r].resp.status_code = 500)
        => worker[r].resp.detail = [text |-> "Internal server error"]

\* C15: on the aggregate, chart, metrics-summary and fields endpoints a
\* request whose analytics_type is not sales, food_delivery or saas is
\* answered with the 422 of the parameter validation; and no response of
\* these endpoints is the error of get_config ("Unsupported analytics
\* type"): a 400 names an invalid field or an invalid group_by, and no
\* request over a working store is answered 500.
C15_InvalidTypeIs422 ==
    (pc = "done" /\ req.endpoint \in CoreEndpoints)
    => /\ req.analytics_type \notin AnalyticsType => resp = RequestValidationError
       /\ resp.status_code \in {200, 400, 422}
       /\ resp.status_code = 400 =>
             resp.detail.text \in {"Invalid field", "Invalid group_by field"}

\* C15 witness: an aggregate request with an invalid analytics_type, over a
\* store with records, is answered 422.
C15_Witness ==
    /\ Handled("aggregate")
    /\ req.analytics_type \notin AnalyticsType
    /\ db.sales # <<>>
    /\ resp.status_code = 422

\* C15 other endpoints reached: the chart, summary and fields endpoints have
\* each refused an invalid analytics_type.
C15_ChartReached ==
    Handled("chart") /\ req.analytics_type \notin AnalyticsType /\ resp.status_code = 422

C15_SummaryReached ==
    Handled("summary") /\ req.analytics_type \notin AnalyticsType /\ resp.status_code = 422

C15_FieldsReached ==
    Handled("fields") /\ req.analytics_type \notin AnalyticsType /\ resp.status_code = 422

\* The default primary field of each domain.
DefaultField == [sales |-> "amount", food_delivery |-> "total_amount", saas |-> "mrr"]

\* The answer of the aggregate endpoint for the summary request's domain and
\* filters, the domain's default field and the given kind, without group_by.
AggregateOfSummary(kind) ==
    get_aggregation(db, req.analytics_type, kind, DefaultField[req.analytics_type],
                    None, req.params, <<>>)

\* The non-NULL values of the field in the records at the positions S.
RECURSIVE ValuesAt(_, _, _)
ValuesAt(table, field, S) ==
    IF S = {} THEN <<>>
    ELSE LET i == CHOOSE j \in S : \A k \in S : j <= k
         IN  (IF table[i][field] = None THEN <<>> ELSE <<table[i][field][1]>>)
             \o ValuesAt(table, field, S \ {i})

\* C17 as stated: a metrics-summary request succeeds with total, average and
\* count equal to the values of the ungrouped sum, avg and count the
\* aggregate endpoint returns for the domain's default primary field and the
\* supplied filters: the sum and the mean of the field's non-NULL values
\* over the records that satisfy the filters (0.0 when there is none) and the
\* number of those records.
C17_SummaryIsThreeAggregates ==
    (Handled("summary") /\ ReachesService)
    => /\ resp.status_code = 200
       /\ AggregateOfSummary("sum").status_code = 200
       /\ Some(resp.body.total) = AggregateOfSummary("sum").body.value
       /\ Some(resp.body.average) = AggregateOfSummary("avg").body.value
       /\ Some(resp.body.count) = AggregateOfSummary("count").body.value
       /\ LET t == req.analytics_type
              M == Matching(db, t, req.params)
              vs == ValuesAt(db[t], DefaultField[t], M)
          IN  /\ resp.body.count = Rat(Cardinality(M), 1)
              /\ resp.body.total = Rat(SeqSum(vs), 1)
              /\ resp.body.average = IF vs = <<>> THEN Zero ELSE Rat(SeqSum(vs), Len(vs))

\* C17 for the parameters the summary handler declares: a summary filtered
\* by them alone is the three ungrouped aggregates.
C17_DeclaredFilters ==
    (Handled("summary") /\ ReachesService
        /\ \A p \in FilterParams \ SummaryParams : req.params[p] = None)
    => /\ resp.status_code = 200
       /\ Some(resp.body.total) = AggregateOfSummary("sum").body.value
       /\ Some(resp.body.average) = AggregateOfSummary("avg").body.value
       /\ Some(resp.body.count) = AggregateOfSummary("count").body.value

\* C17 divergence reached: a summary request filtered by customer_id, which
\* no record satisfies, reports all the stored records.
C17_IgnoredFilterReached ==
    /\ Handled("summary") /\ ReachesService
    /\ req.params.customer_id # None
    /\ Matching(db, req.analytics_type, req.params) = {}
    /\ resp.status_code = 200
    /\ resp.body.count = <<3, 1>>

\* The filter parameter names the fields operation documents per domain.
FilterableNames ==
    [sales |-> {"category", "region", "product_name", "payment_method", "customer_id"},
     food_delivery |-> {"restaurant_name", "cuisine_type", "city", "delivery_status",
                        "customer_id"},
     saas |-> {"plan_name", "plan_type", "status", "currency", "customer_id"}]

\* C18: for each domain a fields request succeeds with exactly the
\* registry's aggregatable_fields and groupable_fields and the keys of its
\* filter_fields; the filterable names are the five names documented for
\* the domain; the answer is a function of the domain alone, the same
\* whatever the stored records and whenever it is asked.
C18_FieldsAreTheRegistry ==
    (Handled("fields") /\ ReachesService)
    => LET t == req.analytics_type
           config == ANALYTICS_CONFIG[t]
       IN  /\ resp.status_code = 200
           /\ resp.body.analytics_type = t
           /\ resp.body.aggregatable_fields = config.aggregatable_fields
           /\ resp.body.groupable_fields = config.groupable_fields
           /\ Len(resp.body.filterable_fields) = Len(config.filter_fields)
           /\ Range(resp.body.filterable_fields)
                 = {b[1] : b \in Range(config.filter_fields)}
           /\ Range(resp.body.filterable_fields) = FilterableNames[t]
           /\ resp = get_available_fields(t)

\* C18 witness: a fields request for food_delivery over a store with records
\* is answered with the five aggregatable fields of the domain.
C18_Witness ==
    /\ Handled("fields") /\ req.analytics_type = "food_delivery"
    /\ db.food_delivery # <<>>
    /\ resp.status_code = 200
    /\ Len(resp.body.aggregatable_fields) = 5
    /\ "customer_id" \in Range(resp.body.filterable_fields)

\* The attributes the handled request made the service look up.
ReadByRequest ==
    CASE req.endpoint = "aggregate" ->
            AttributesRead(req.analytics_type, req.aggregation_type, req.field,
                           ServiceFilters(req.params), req.group_by)
      [] req.endpoint = "chart" ->
            ChartAttributesRead(req.analytics_type, req.field,
                                ServiceFilters(req.params), req.group_by[1])
      [] req.endpoint = "summary" ->
            AttributesRead(req.analytics_type, "sum", PrimaryField(req.analytics_type),
                           ServiceFilters([p \in FilterParams |->
                               IF p \in SummaryParams THEN req.params[p] ELSE None]),
                           None)

\* C19: in each domain the date_field, the aggregatable_fields, the
\* groupable_fields and the bound fields of filter_fields are columns of the
\* domain's record type; and whatever field, group_by and filter parameters
\* a request carries, the service aggregates only over an aggregatable
\* field, groups only by a groupable field and filters only on a bound field
\* or the date field.
C19_RegistryInvariant ==
    /\ \A t \in AnalyticsType :
          LET config == ANALYTICS_CONFIG[t]
          IN  /\ config.date_field \in config.model
              /\ Range(config.aggregatable_fields) \subseteq config.model
              /\ Range(config.groupable_fields) \subseteq config.model
              /\ {b[2] : b \in Range(config.filter_fields)} \subseteq config.model
    /\ (pc = "done" /\ req.endpoint \in SessionEndpoints /\ ReachesService
           /\ (req.endpoint = "chart" => req.group_by # None))
       => LET config == ANALYTICS_CONFIG[req.analytics_type]
          IN  /\ ReadByRequest.aggregated \subseteq Range(config.aggregatable_fields)
              /\ ReadByRequest.grouped \subseteq Range(config.groupable_fields)
              /\ ReadByRequest.filtered \subseteq
                    {b[2] : b \in Range(config.filter_fields)} \cup {config.date_field}

\* C19 witness: a request carrying a column that is not aggregatable as its
\* field, a column that is not groupable as its group_by and a filter
\* parameter the domain does not bind has been refused, and only the date
\* field was looked up.
C19_Witness ==
    /\ Handled("aggregate") /\ ReachesService
    /\ req.field = "id" /\ req.group_by = Some("customer_id")
    /\ \E p \in Unbound(req.analytics_type) : TruthyStr(req.params[p])
    /\ req.params.start_date # None
    /\ resp.status_code = 400
    /\ ReadByRequest = [filtered |-> {ANALYTICS_CONFIG[req.analytics_type].date_field},
                        aggregated |-> {}, grouped |-> {}]

\* C19 also reached: a valid grouped and filtered request looks up its
\* field, its group_by and the bound field of its filter.
C19_ValidReached ==
    /\ ValidGrouped /\ req.aggregation_type = "avg"
    /\ resp.status_code = 200
    /\ ReadByRequest.aggregated = {req.field}
    /\ ReadByRequest.grouped = {req.group_by[1]}
    /\ Cardinality(ReadByRequest.filtered) = 2

\* The answer to the handled aggregate request with its field replaced by f.
WithField(f) ==
    get_aggregation(db, req.analytics_type, req.aggregation_type, f, req.group_by,
                    req.params, req.order)

\* C20: a grouped count returns the same groups for every valid field of the
\* domain: each group's value is the number of the records satisfying the
\* filters that carry the group's key, records with a NULL field included;
\* and a count request with an invalid field fails with the invalid-field
\* error.
C20_CountIgnoresField ==
    /\ (ValidGrouped /\ req.aggregation_type = "count")
       => /\ resp.status_code = 200 /\ resp.body.groups # None
          /\ \A f \in AggregatableOf(req.analytics_type) :
                /\ WithField(f).status_code = 200
                /\ WithField(f).body.groups = resp.body.groups
          /\ LET t == req.analytics_type
                 M == Matching(db, t, req.params)
             IN  \A g \in Range(resp.body.groups[1]) :
                    \E m \in M :
                       LET key == db[t][m][req.group_by[1]]
                       IN  /\ g.group = Str(key)
                           /\ g.value = Rat(Cardinality(
                                  {n \in M : db[t][n][req.group_by[1]] = key}), 1)
    /\ (Handled("aggregate") /\ ReachesService /\ req.aggregation_type = "count"
           /\ req.field \notin AggregatableOf(req.analytics_type))
       => IsClientError(resp, "Invalid field",
                        ANALYTICS_CONFIG[req.analytics_type].aggregatable_fields)

\* C20 witness: a grouped count over three records in two groups; the field
\* is NULL in one of the records, which is counted all the same, and another
\* valid field of the domain is NULL in another record.
C20_Witness ==
    /\ ValidGrouped /\ req.aggregation_type = "count"
    /\ resp.status_code = 200
    /\ Len(resp.body.groups[1]) = 2
    /\ GroupTotal(resp.body.groups[1]) = <<3, 1>>
    /\ LET table == db[req.analytics_type]
       IN  /\ Len(table) = 3
           /\ \E i \in DOMAIN table : table[i][req.field] = None
           /\ \E f \in AggregatableOf(req.analytics_type) \ {req.field} :
                 \E i \in DOMAIN table :
                    table[i][f] = None /\ table[i][req.field] # None

\* C20 second case reached: a grouped count with an invalid field and a valid
\* group_by is refused.
C20_InvalidFieldReached ==
    /\ Handled("aggregate") /\ ReachesService /\ req.aggregation_type = "count"
    /\ req.field = "id"
    /\ TruthyStr(req.group_by) /\ req.group_by[1] \in GroupableOf(req.analytics_type)
    /\ resp.status_code = 400

\* ------------------------------------------------------------------ C21

\* The kinds whose branch of aggregate reads group_by.
GroupingKinds == {"sum", "avg", "count"}

\* The shape of a successful aggregate result, groups expected when grouped.
ResultShape(grouped) ==
    LET body == resp.body
    IN  /\ (body.groups # None) <=> grouped
        /\ (body.value # None) <=> ~grouped
        /\ (body.group_by # None) <=> grouped
        /\ grouped => body.group_by = req.group_by
        /\ body.analytics_type = req.analytics_type
        /\ body.aggregation_type = req.aggregation_type
        /\ body.field = req.field

\* C21 as stated: a successful aggregate result carries either a scalar value
\* or group_by and groups, never both and never neither; the groups are there
\* exactly when a group_by was supplied with kind sum, avg or count; it echoes
\* analytics_type, aggregation_type and field.
C21_Original ==
    (Handled("aggregate") /\ resp.status_code = 200)
       => ResultShape(req.group_by # None /\ req.aggregation_type \in GroupingKinds)

\* C21 amended: a successful aggregate result carries either a scalar value
\* or group_by and groups, never both and never neither; the groups are there
\* exactly when a non-empty group_by was supplied with kind sum, avg or count
\* (an empty group_by gives the scalar); it echoes analytics_type,
\* aggregation_type and field.
C21_ResultShape ==
    (Handled("aggregate") /\ resp.status_code = 200)
       => ResultShape(TruthyStr(req.group_by) /\ req.aggregation_type \in GroupingKinds)

\* C21 witness: a successful grouped average with two groups and no value.
C21_Witness ==
    /\ Handled("aggregate") /\ resp.status_code = 200
    /\ req.aggregation_type = "avg" /\ TruthyStr(req.group_by)
    /\ resp.body.value = None
    /\ Len(resp.body.groups[1]) = 2

\* C21 second case reached: an empty group_by with kind sum gives a scalar.
C21_EmptyGroupByReached ==
    /\ Handled("aggregate") /\ resp.status_code = 200
    /\ req.aggregation_type = "sum" /\ req.group_by = Some("")
    /\ resp.body.value # None /\ resp.body.groups = None

\* C21 third case reached: a maximum with a valid group_by gives a scalar.
C21_MaxReached ==
    /\ Handled("aggregate") /\ resp.status_code = 200
    /\ req.aggregation_type = "max" /\ TruthyStr(req.group_by)
    /\ resp.body.value # None /\ resp.body.groups = None

\* ------------------------------------------------------------------ C22

\* The responses a repetition of the handled aggregate request may get over
\* the same store: the grouped statement carries no ORDER BY, so the store
\* returns the groups in an order of its choosing at each execution.
RepeatedCalls ==
    {get_aggregation(db, req.analytics_type, req.aggregation_type, req.field,
                     req.group_by, req.params, order) :
        order \in OrderInputs(db, req.analytics_type, req.group_by)}

\* C22: grouped aggregation is deterministic for a fixed record set: a second
\* call with the same domain, kind, field, group_by and filters, with no write
\* in between, returns the same groups in the same order.
C22_SameGroupsSameOrder ==
    (Handled("aggregate") /\ resp.status_code = 200 /\ resp.body.groups # None)
       => RepeatedCalls = {resp}

\* What the code does guarantee for C22: a second call returns the same groups
\* (keys and values), in some order.
C22_SameGroups ==
    (Handled("aggregate") /\ resp.status_code = 200 /\ resp.body.groups # None)
       => \A again \in RepeatedCalls :
             /\ again.status_code = 200
             /\ Range(again.body.groups[1]) = Range(resp.body.groups[1])
             /\ Len(again.body.groups[1]) = Len(resp.body.groups[1])

\* C22 case reached: a grouped sum with two groups.
C22_TwoGroupsReached ==
    /\ Handled("aggregate") /\ resp.status_code = 200 /\ resp.body.groups # None
    /\ req.aggregation_type = "sum"
    /\ Len(resp.body.groups[1]) = 2

\* ------------------------------------------------------------------ C26

\* The keys of the entries of a grouped result or chart, in their order.
Labels(response) ==
    IF "data" \in DOMAIN response.body
    THEN [i \in DOMAIN response.body.data |-> response.body.data[i].label]
    ELSE [i \in DOMAIN response.body.groups[1] |-> response.body.groups[1][i].group]

\* A handled request answered with groups or chart data.
GroupedAnswer ==
    /\ pc = "done" /\ resp.status_code = 200
    /\ \/ req.endpoint = "chart"
       \/ req.endpoint = "aggregate" /\ resp.body.groups # None

\* C26: in every grouped aggregate result and every chart result the group
\* keys (labels) are pairwise distinct, also when some records have a null
\* group attribute and others the literal string "None".
C26_LabelsDistinct ==
    GroupedAnswer
       => \A i, j \in DOMAIN Labels(resp) :
             i # j => Labels(resp)[i] # Labels(resp)[j]

\* What holds for C26 without the null group: the labels are pairwise distinct
\* when no selected record has a NULL group attribute.
C26_DistinctWithoutNull ==
    (GroupedAnswer
        /\ \A n \in Matching(db, req.analytics_type, req.params) :
               db[req.analytics_type][n][req.group_by[1]] # None)
       => \A i, j \in DOMAIN Labels(resp) :
             i # j => Labels(resp)[i] # Labels(resp)[j]

\* C26 case reached: a grouped result over records one of which has a NULL
\* group attribute and another the string "None".
C26_NullAndNoneReached ==
    /\ GroupedAnswer
    /\ \E m, n \in Matching(db, req.analytics_type, req.params) :
          /\ db[req.analytics_type][m][req.group_by[1]] = None
          /\ db[req.analytics_type][n][req.group_by[1]] = Some("None")

\* ------------------------------------------------------------------ C23

\* The step of import i that ends its loop over the rows or its save.
EndStep(i) == importer[i].pc = "reading" /\ importer'[i].pc = "done"

\* The step of import i that saves and commits, or fails to.
SaveStep(i) == EndStep(i) /\ importer[i].rows = <<>>

\* The import was refused because the store failed.
StoreFault(response) ==
    response.status_code = 400 /\ response.detail.error.text = Failure[1].error

\* The import was refused because of the unique constraint.
UniqueViolation(response) ==
    response.status_code = 400 /\ response.detail.error.text = "UNIQUE constraint failed"

\* The domains whose records have a natural key.
KeyedDomains == {t \in AnalyticsType : NaturalKey(t) # None}

\* No two records of the table share their natural key.
KeysDistinct(table, column) ==
    \A m, n \in DOMAIN table : m # n => table[m][column] # table[n][column]

\* The rows import i did not skip are stored, their number is returned and
\* the import succeeds.
RowsInserted(i) ==
    LET me == importer[i]
        t == me.analytics_type
        column == NaturalKey(t)[1]
        response == importer'[i].response
    IN  /\ response.status_code = 200
        /\ response.body.records_imported = Len(db'[t]) - Len(db[t])
        /\ \A k \in DOMAIN me.objects :
              Existing(db'[t], column, me.objects[k][column][1])
        /\ KeysDistinct(db'[t], column)

\* C23: the food-order and subscription imports skip duplicates on their
\* natural key: every row whose order_id / subscription_id duplicates a
\* stored record or another row of the same import is skipped without error,
\* the remaining rows are inserted and the number inserted is returned.
C23_DuplicatesSkipped ==
    [][(SaveStep(1) /\ importer[1].analytics_type \in KeyedDomains
           /\ ~StoreFault(importer'[1].response))
          => RowsInserted(1)]_vars

\* What the code does for C23: when no two rows that passed the existence
\* check share their key, the rows whose key is stored are skipped without
\* error, the others are inserted and their number is returned.
C23_StoredDuplicatesSkipped ==
    [][(SaveStep(1) /\ importer[1].analytics_type \in KeyedDomains
           /\ ~StoreFault(importer'[1].response)
           /\ KeysDistinct(importer[1].objects,
                           NaturalKey(importer[1].analytics_type)[1]))
          => RowsInserted(1)]_vars

\* C23 case reached: a file with the same order_id in two rows, none of them
\* stored, is refused with the unique-constraint error.
C23_DuplicateInFileReached ==
    /\ importer[1].pc = "done" /\ importer[1].analytics_type = "food_delivery"
    /\ Len(importer[1].objects) = 2
    /\ importer[1].objects[1].order_id = importer[1].objects[2].order_id
    /\ UniqueViolation(importer[1].response)
    /\ db["food_delivery"] = <<>>

\* C23 second case reached: a file imported again inserts nothing.
C23_ReimportReached ==
    /\ importer[1].pc = "done" /\ importer[1].analytics_type = "saas"
    /\ Len(importer[1].file) = 2 /\ importer[1].skipped = 2
    /\ importer[1].response.status_code = 200
    /\ importer[1].response.body.records_imported = 0
    /\ Len(db["saas"]) = 2

\* ------------------------------------------------------------------ C24

\* The ungrouped aggregate of the sales amounts of a store.
SalesAggregate(store, aggregation_type) ==
    aggregate(store, "sales", aggregation_type, "amount", None, None, <<>>).value.value

\* The sum of the amounts of the rows of a sales file.
RECURSIVE FileSum(_)
FileSum(file) ==
    IF file = <<>> THEN 0
    ELSE Float(Head(file).amount, 0).value + FileSum(Tail(file))

\* The records of a table without their primary keys.
WithoutIds(table) == [k \in DOMAIN table |-> [table[k] EXCEPT !.id = None]]

\* C24: the sales import always appends: a successful import of a file with n
\* rows increases the number of stored sales transactions by exactly n and
\* returns n, whether or not identical rows are stored already, and the
\* ungrouped count and sum grow by the file's row count and amount sum.
C24_SalesImportAppends ==
    [][(EndStep(1) /\ importer[1].analytics_type = "sales"
           /\ importer'[1].response.status_code = 200)
          => LET file == importer[1].file
                 n == Len(file)
             IN  /\ Len(db'["sales"]) = Len(db["sales"]) + n
                 /\ importer'[1].response.body.records_imported = n
                 /\ SubSeq(db'["sales"], 1, Len(db["sales"])) = db["sales"]
                 /\ WithoutIds(SubSeq(db'["sales"], Len(db["sales"]) + 1,
                                      Len(db'["sales"])))
                       = [k \in 1..n |-> SalesObject(file[k]).value]
                 /\ SalesAggregate(db', "count")
                       = RatAdd(SalesAggregate(db, "count"), Rat(n, 1))
                 /\ SalesAggregate(db', "sum")
                       = RatAdd(SalesAggregate(db, "sum"), Rat(FileSum(file), 1))]_vars

\* C24 witness: the same one-row file has been imported three times and its
\* row is stored three times.
C24_Witness ==
    /\ importer[1].pc = "done" /\ importer[1].analytics_type = "sales"
    /\ importer[1].response.status_code = 200
    /\ Len(importer[1].file) = 1
    /\ Len(db["sales"]) = 3
    /\ \A k \in 1..3 :
          WithoutIds(db["sales"])[k] = SalesObject(importer[1].file[1]).value

\* C24 second case reached: a two-row file is appended to a stored record.
C24_TwoRowsReached ==
    /\ importer[1].pc = "done" /\ importer[1].analytics_type = "sales"
    /\ importer[1].response.status_code = 200
    /\ importer[1].response.body.records_imported = 2
    /\ Len(db["sales"]) = 3

\* ------------------------------------------------------------------ C28

\* C28: an import is all-or-nothing: when it fails at some row (a date or a
\* number that cannot be parsed, an error of the store on save) the
\* transaction is rolled back and the error is propagated to the caller, so
\* that no record of the file is stored and the store is what it was before.
C28_AllOrNothing ==
    [][(EndStep(1) /\ importer'[1].response.status_code # 200)
          => /\ db' = db
             /\ importer'[1].response.status_code = 400
             /\ importer'[1].response.detail.text = "Error importing data"
             /\ importer'[1].response.detail.error.text
                   \in {"could not convert string to float", "Unable to parse date",
                        "UNIQUE constraint failed", Failure[1].error}]_vars

\* C28, the other half: an import that succeeds stores every object it built.
C28_AllStored ==
    [][(EndStep(1) /\ importer'[1].response.status_code = 200)
          => LET t == importer[1].analytics_type
             IN  /\ SubSeq(db'[t], 1, Len(db[t])) = db[t]
                 /\ WithoutIds(SubSeq(db'[t], Len(db[t]) + 1, Len(db'[t])))
                       = importer[1].objects
                 /\ \A u \in AnalyticsType \ {t} : db'[u] = db[u]]_vars

\* C28 witness: the save of two objects fails at the second one, after the
\* first was inserted in the transaction, and the store holds what it held.
C28_Witness ==
    /\ importer[1].pc = "done"
    /\ Len(importer[1].objects) = 2
    /\ UniqueViolation(importer[1].response)
    /\ Len(db[importer[1].analytics_type]) = 1

\* C28 second case reached: the second row of a file cannot be parsed, the
\* first one could, and nothing is stored.
C28_ParseFailureReached ==
    /\ importer[1].pc = "done"
    /\ Len(importer[1].file) = 2 /\ Len(importer[1].objects) = 1
    /\ importer[1].response.status_code = 400
    /\ importer[1].response.detail.error.text = "Unable to parse date"
    /\ db = EmptyStore

\* C28 third case reached: the store fails on the save of a good file.
C28_StoreFaultReached ==
    /\ importer[1].pc = "done"
    /\ Len(importer[1].objects) = 2
    /\ StoreFault(importer[1].response)
    /\ db = EmptyStore

\* ------------------------------------------------------------------ C25

\* The mrr of a stored subscription is normalized.
Normalized(subscription) ==
    /\ subscription.plan_type = Some("monthly")
          => subscription.mrr = subscription.amount
    /\ subscription.plan_type = Some("annual")
          => 12 * subscription.mrr[1] = subscription.amount[1]

\* C25: after any sequence of seed and import operations every stored
\* subscription has mrr equal to its amount when its plan_type is monthly and
\* to amount / 12 when it is annual.
C25_MrrNormalized ==
    \A k \in DOMAIN db["saas"] : Normalized(db["saas"][k])

\* What the code does for C25: an imported subscription has the mrr of its
\* row, 0 when the row has none.
C25_MrrOfTheFile ==
    [][(EndStep(1) /\ importer[1].analytics_type = "saas"
           /\ importer'[1].response.status_code = 200)
          => \A k \in DOMAIN importer[1].objects :
                \E row \in Range(importer[1].file) :
                   /\ ~SubscriptionObject(row).raised
                   /\ importer[1].objects[k].subscription_id = Some(row.subscription_id)
                   /\ importer[1].objects[k].amount = Some(Float(row.amount, 0).value)
                   /\ importer[1].objects[k].mrr = Some(Float(row.mrr, 0).value)
                   /\ \E n \in DOMAIN db'["saas"] :
                         WithoutIds(db'["saas"])[n] = importer[1].objects[k]]_vars

\* C25 case reached: an annual subscription imported from a row without mrr
\* column is stored with mrr 0.
C25_AnnualWithoutMrrReached ==
    /\ importer[1].pc = "done" /\ importer[1].analytics_type = "saas"
    /\ importer[1].response.status_code = 200
    /\ \E k \in DOMAIN db["saas"] :
          /\ db["saas"][k].plan_type = Some("annual")
          /\ db["saas"][k].amount = Some(12)
          /\ db["saas"][k].mrr = Some(0)

\* ------------------------------------------------------------------ C30

\* C30: after any sequence of seed and import operations every stored food
\* order has total_amount = order_amount + delivery_fee + tip_amount.
C30_TotalIsSum ==
    \A k \in DOMAIN db["food_delivery"] :
       LET order == db["food_delivery"][k]
       IN  order.total_amount[1]
              = order.order_amount[1] + order.delivery_fee[1] + order.tip_amount[1]

\* What the code does for C30: an imported food order has the total_amount of
\* its row, 0 when the row has none; a seeded one has the sum of its parts.
C30_TotalOfTheFile ==
    [][(EndStep(1) /\ importer[1].analytics_type = "food_delivery"
           /\ importer'[1].response.status_code = 200)
          => \A k \in DOMAIN importer[1].objects :
                \E row \in Range(importer[1].file) :
                   /\ ~FoodObject(row).raised
                   /\ importer[1].objects[k].order_id = Some(row.order_id)
                   /\ importer[1].objects[k].total_amount
                         = Some(Float(row.total_amount, 0).value)
                   /\ \E n \in DOMAIN db'["food_delivery"] :
                         WithoutIds(db'["food_delivery"])[n] = importer[1].objects[k]]_vars

\* C30 case reached: a food order imported from a row without total_amount
\* column is stored with total 0 next to an order_amount of 3 and a fee of 1.
C30_OrderWithoutTotalReached ==
    /\ importer[1].pc = "done" /\ importer[1].analytics_type = "food_delivery"
    /\ importer[1].response.status_code = 200
    /\ \E k \in DOMAIN db["food_delivery"] :
          /\ db["food_delivery"][k].order_amount = Some(3)
          /\ db["food_delivery"][k].delivery_fee = Some(1)
          /\ db["food_delivery"][k].total_amount = Some(0)

\* ------------------------------------------------------------------ C29

\* C29: natural-key uniqueness holds under concurrency: after any
\* interleaving of concurrent food-order or subscription imports, including
\* two that both pass the existence check for the same key before either
\* saves, no two stored records share an order_id or a subscription_id.
C29_KeysUnique ==
    \A t \in KeyedDomains : KeysDistinct(db[t], NaturalKey(t)[1])

\* C29, the racing inserts: a save that would store a key a second time
\* stores nothing at all and is answered with the unique-constraint error.
C29_OneInsertPersists ==
    [][\A i \in Importers :
          (SaveStep(i)
              /\ \E k \in DOMAIN importer[i].objects :
                    LET t == importer[i].analytics_type
                        column == NaturalKey(t)[1]
                    IN  Existing(db[t], column, importer[i].objects[k][column][1]))
          => db' = db /\ importer'[i].response.status_code = 400]_vars

\* C29 witness: two imports passed the existence check for the same order_id
\* before either saved; one was persisted, the other refused.
C29_Witness ==
    /\ importer[1].pc = "done" /\ importer[2].pc = "done"
    /\ importer[1].analytics_type = "food_delivery"
    /\ importer[2].analytics_type = "food_delivery"
    /\ importer[1].skipped = 0 /\ importer[2].skipped = 0
    /\ Len(importer[1].objects) = 1
    /\ importer[2].objects = importer[1].objects
    /\ importer[1].response.status_code = 200
    /\ UniqueViolation(importer[2].response)
    /\ Len(db["food_delivery"]) = 1

\* ------------------------------------------------------------------ C27

\* The body of the summary response that has just been built.
SummaryBody == summary.response.body

\* total, average and count fit one record set.
Consistent(body) ==
    /\ body.count = Zero => body.total = Zero
    /\ body.total = RatMul(body.average, body.count)

\* C27: a metrics-summary response is internally consistent even when an
\* import commits records while the request is served: total, average and
\* count are computed over the same record set (count = 0 implies total = 0,
\* and total = average x count when no primary value is null), although
\* three separate queries compute them.
C27_SummaryConsistent ==
    summary.pc = "done" => Consistent(SummaryBody)

\* What the code does for C27: the response is consistent when the three
\* queries read the same table.
C27_ConsistentWithoutCommit ==
    (summary.pc = "done"
        /\ summary.read[1] = summary.read[2] /\ summary.read[2] = summary.read[3])
       => Consistent(SummaryBody)

\* C27 case reached: an import committed between the first and the second
\* query of a summary, and the response reports a total of 0 with a count of 1.
C27_CommitBetweenQueriesReached ==
    /\ summary.pc = "done" /\ summary.analytics_type = "sales"
    /\ summary.read[1] = <<>> /\ Len(summary.read[2]) = 1
    /\ SummaryBody.total = Zero
    /\ SummaryBody.count = Rat(1, 1)
    /\ SummaryBody.average # Zero

====
